---- MODULE Spec2Model ----
(***************************************************************************)
(* Structural analysis engine of RagKB: the bounded-execution wrapper, the *)
(* three layer builders (pattern/AST, CFG, PDG) and their per-function     *)
(* builders.  Two generations of the engine live in the repository and     *)
(* both are modelled: "archive" is src/archive/.../src_original, "current" *)
(* is src/src.  The variable `version` selects the generation a behaviour  *)
(* runs.                                                                   *)
(*                                                                         *)
(* A syntax-tree node is a record [type, text, line, children]; `text` is  *)
(* the node's source text as a sequence of tokens, `line` its 1-based      *)
(* start line, `children` a sequence of nodes.  A string of characters (an *)
(* error message) is a sequence of one-character strings.                  *)
(***************************************************************************)
EXTENDS Integers, Sequences, FiniteSets, TLC

VARIABLES
    version,    \* "archive" or "current": which generation of the engine runs
    fn,         \* SpecCfg / SpecPdg: the function_definition node under analysis
    fault,      \* SpecCfg / SpecPdg: message of the exception raised inside the build, or NoExc
    fpc,        \* SpecCfg / SpecPdg: "ready" before the per-function builder ran, "built" after
    hashSeed,   \* iteration order of the process's string sets (a sequence of the names)
    cfgOut,     \* SpecCfg: what the per-function CFG builder returned
    pdgOut,     \* SpecPdg: what the per-function PDG builder returned, or the exception it raised
    firstRun,   \* SpecPdg: None, or [out, seed, between]: what the first run on fn gave, the
                \* hash order of its process, and whether another call was made since
    input,      \* Spec: [root, fault], the parsed code and where analysing it raises
    callNo,     \* Spec: index of the caller's current (or next) layer call
    cpc,        \* Spec: the caller: "idle", "join", "check", "inline" or "crashed"
    layerOf,    \* Spec: per call, the layer called ("ast", "cfg", "pdg"), "" before the call
    worker,     \* Spec: per call, its builder: "none", "running" or "dead"
    elapsed,    \* Spec: per call, whether its budget expired with the builder unfinished
    result,     \* Spec: per closure cell, result[0]: None or [val, by]
    exception,  \* Spec: per closure cell, exception[0]: None or [exc, by]
    ret,        \* Spec: per call, the record returned to the caller, None before
    thrown,     \* Spec: per call, the message of the exception that reached the caller, or NoExc
    deliveredFrom, \* Spec: per call, the call whose worker wrote what was returned, 0 if none
    dirExists,  \* SpecBatch: whether the raw-data directory exists
    outcomes,   \* SpecBatch: per raw file, in sorted order, how its subprocess ends
    bpc,        \* SpecBatch: "start", "loop" or "done" ("unused" in the other specifications)
    raw_files,  \* SpecBatch: the sorted list of raw files, Unbound before the glob
    success_count, \* SpecBatch: Unbound before the loop
    failed_files,  \* SpecBatch: Unbound before the loop
    position,   \* SpecBatch: how many files the loop has handled
    attempts,   \* SpecBatch: per raw file, how many subprocesses were launched for it
    returned,   \* SpecBatch: None, or [val |-> what process_all_raw_files returned]
    unitIn,     \* SpecUnit: [root, fault], the parsed code and where analysing it raises
    unitLayer,  \* SpecUnit: the layer whose internal builder runs on the unit
    upc,        \* SpecUnit: "ready" before the builder ran, "built" after ("unused" elsewhere)
    unitOut,    \* SpecUnit: what the builder returned, None before
    migData,    \* SpecMigrate: the items load_hybrid_data returns
    migBatchSize,    \* SpecMigrate: the batch_size migrate_data is called with
    mpc,        \* SpecMigrate: "start", "loop" or "done" ("unused" elsewhere)
    migIdx,     \* SpecMigrate: batch_idx, where the next batch starts in the data
    migration_stats, \* SpecMigrate: the migrator's counters
    migCollection    \* SpecMigrate: how many documents the collection holds

funcVars == <<fn, fault, fpc, cfgOut, pdgOut, firstRun>>
callVars == <<input, callNo, cpc, layerOf, worker, elapsed, result, exception, ret, thrown,
              deliveredFrom>>
batchVars == <<dirExists, outcomes, bpc, raw_files, success_count, failed_files, position,
               attempts, returned>>
unitVars == <<unitIn, unitLayer, upc, unitOut>>
migVars == <<migData, migBatchSize, mpc, migIdx, migration_stats, migCollection>>
otherVars == <<unitVars, migVars>>
vars == <<version, hashSeed, funcVars, callVars, batchVars, otherVars>>

-----------------------------------------------------------------------------
(* Bounds *)

\* most raw files in the data directory
MaxFiles == 3

\* most statements in a function body, CFG specification
MaxStmts == 3

\* most statements in a function body, PDG specification
MaxPdgStmts == 2

\* most layer calls the caller makes in one behaviour
MaxCalls == 2

\* most top-level items in a unit of code
MaxFuncs == 2

\* pairs of parentheses around the deepest expression of a unit
MaxNest == 8

\* pointer / array wrappers around a declared identifier
MaxWrap == 2

\* most items in the data to migrate
MaxItems == 3

\* largest batch_size migrate_data is called with
MaxBatchSize == 2

-----------------------------------------------------------------------------
(* Generic helpers *)

None == [none |-> TRUE]
NoExc == <<>>

\* an exception that left a function, with its message
Raised(msg) == [raised |-> msg]

Max(a, b) == IF a >= b THEN a ELSE b
Min(a, b) == IF a <= b THEN a ELSE b

Range(s) == {s[i] : i \in 1..Len(s)}

RECURSIVE Flatten(_)
\* concatenation of a sequence of sequences
Flatten(ss) ==
    IF Len(ss) = 0 THEN <<>>
    ELSE IF Len(ss) = 1 THEN ss[1]
    ELSE LET half == Len(ss) \div 2
         IN  Flatten(SubSeq(ss, 1, half)) \o Flatten(SubSeq(ss, half + 1, Len(ss)))

RECURSIVE SeqsUpTo(_, _)
\* all sequences over S of length at most n
SeqsUpTo(S, n) ==
    IF n = 0 THEN {<<>>}
    ELSE LET shorter == SeqsUpTo(S, n - 1)
         IN  shorter \cup {Append(s, x) : s \in shorter, x \in S}

Take(s, n) == SubSeq(s, 1, IF n < Len(s) THEN n ELSE Len(s))

-----------------------------------------------------------------------------
(* Character strings and clean_error_message *)

Whitespace == {" ", "\t", "\n"}

RECURSIVE LStrip(_)
LStrip(s) == IF s # <<>> /\ Head(s) \in Whitespace THEN LStrip(Tail(s)) ELSE s

RECURSIVE RStrip(_)
RStrip(s) ==
    IF s # <<>> /\ s[Len(s)] \in Whitespace THEN RStrip(SubSeq(s, 1, Len(s) - 1)) ELSE s

\* str.strip()
Strip(s) == RStrip(LStrip(s))

RECURSIVE CollapseSpaces(_)
\* re.sub(r'\s+', ' ', s)
CollapseSpaces(s) ==
    IF s = <<>> THEN <<>>
    ELSE IF Head(s) \in Whitespace
         THEN <<" ">> \o CollapseSpaces(LStrip(s))
         ELSE <<Head(s)>> \o CollapseSpaces(Tail(s))

UnknownError ==
    <<"U", "n", "k", "n", "o", "w", "n", " ", "e", "r", "r", "o", "r">>

Ellipsis == <<".", ".", ".">>

\* utils.clean_error_message
clean_error_message(error, max_length) ==
    IF error = <<>> THEN UnknownError
    ELSE LET cleaned == CollapseSpaces(Strip(error))
         IN  IF Len(cleaned) > max_length
             THEN Take(cleaned, max_length - 3) \o Ellipsis
             ELSE cleaned

\* caps passed to clean_error_message / used in str(e)[:n]
LayerErrorCap == 100
FunctionErrorCap == 50

\* messages of the exceptions a build can raise
ExcMsgs == { <<"b", "a", "d">>, <<" ", "n", "o", " ", " ", "n", "o", "d", "e", "\n">> }

-----------------------------------------------------------------------------
(* Syntax trees (tree-sitter C shapes) *)

Leaf(type, tok) == [type |-> type, text |-> <<tok>>, line |-> 1, children |-> <<>>]
Tok(t) == Leaf(t, t)
Id(name) == Leaf("identifier", name)
Num(n) == Leaf("number_literal", n)
N(type, children) ==
    [type |-> type,
     text |-> Flatten([i \in 1..Len(children) |-> children[i].text]),
     line |-> 1,
     children |-> children]

RECURSIVE AtLine(_, _)
\* the subtree with every node placed on line l
AtLine(node, l) ==
    [node EXCEPT !.line = l,
                 !.children = [i \in 1..Len(node.children) |-> AtLine(node.children[i], l)]]

\* statement i of a body sits on line i + 1 (the function header is line 1)
OnePerLine(stmts) == [i \in 1..Len(stmts) |-> AtLine(stmts[i], i + 1)]

Paren(e) == N("parenthesized_expression", <<Tok("("), e, Tok(")")>>)
Block(stmts) == N("compound_statement", <<Tok("{")>> \o stmts \o <<Tok("}")>>)
Assign(lhs, rhs) == N("assignment_expression", <<lhs, Tok("="), rhs>>)
Plus(a, b) == N("binary_expression", <<a, Tok("+"), b>>)
ExprStmt(e) == N("expression_statement", <<e, Tok(";")>>)
DeclInit(name, e) ==
    N("declaration", <<Leaf("primitive_type", "int"),
                       N("init_declarator", <<Id(name), Tok("="), e>>), Tok(";")>>)
DeclPlain(name) ==
    N("declaration", <<Leaf("primitive_type", "int"), Id(name), Tok(";")>>)
Return(e) == N("return_statement", <<Tok("return"), e, Tok(";")>>)
Break == N("break_statement", <<Tok("break"), Tok(";")>>)
Continue == N("continue_statement", <<Tok("continue"), Tok(";")>>)
If(c, stmts) == N("if_statement", <<Tok("if"), Paren(c), Block(stmts)>>)
While(c, stmts) == N("while_statement", <<Tok("while"), Paren(c), Block(stmts)>>)
For(stmts) ==
    N("for_statement", <<Tok("for"), Tok("("), Tok(";"), Tok(";"), Tok(")"), Block(stmts)>>)
Switch(c) == N("switch_statement", <<Tok("switch"), Paren(c), Block(<<>>)>>)
Goto(label) ==
    N("goto_statement", <<Tok("goto"), Leaf("statement_identifier", label), Tok(";")>>)
DoWhile(stmts, c) ==
    N("do_statement", <<Tok("do"), Block(stmts), Tok("while"), Paren(c), Tok(";")>>)
Call(f, arg) ==
    N("call_expression", <<Id(f), N("argument_list", <<Tok("("), arg, Tok(")")>>)>>)

FuncDeclarator(name) ==
    N("function_declarator", <<Id(name), N("parameter_list", <<Tok("("), Tok(")")>>)>>)
\* a function_definition with a body
FuncDef(name, stmts) ==
    N("function_definition",
      <<Leaf("primitive_type", "int"), FuncDeclarator(name), Block(OnePerLine(stmts))>>)
\* a function_definition whose compound_statement the parser did not recover
FuncNoBody(name) ==
    N("function_definition",
      <<Leaf("primitive_type", "int"), FuncDeclarator(name), N("ERROR", <<Tok("{")>>)>>)

Bin(a, op, b) == N("binary_expression", <<a, Tok(op), b>>)
AssignOp(lhs, op, rhs) == N("assignment_expression", <<lhs, Tok(op), rhs>>)
Negative(e) == N("unary_expression", <<Tok("-"), e>>)
IfElse(c, then, else) ==
    N("if_statement", <<Tok("if"), Paren(c), Block(then),
                        N("else_clause", <<Tok("else"), Block(else)>>)>>)
ForLoop(init, cond, update, stmts) ==
    N("for_statement",
      <<Tok("for"), Tok("("), init, cond, Tok(";"), update, Tok(")"), Block(stmts)>>)

\* the body of the function the builders' self-tests parse:
\*   int result = 0;
\*   if (x > 0) { result = x * 2; } else { result = x * -1; }
\*   for (int i = 0; i < x; i++) { result += i; }
\*   return result;
\* (result is written r)
TestBody ==
    << DeclInit("r", Num("0")),
       IfElse(Bin(Id("x"), ">", Num("0")),
              <<ExprStmt(Assign(Id("r"), Bin(Id("x"), "*", Num("2"))))>>,
              <<ExprStmt(Assign(Id("r"), Bin(Id("x"), "*", Negative(Num("1")))))>>),
       ForLoop(DeclInit("i", Num("0")),
               Bin(Id("i"), "<", Id("x")),
               N("update_expression", <<Id("i"), Tok("++")>>),
               <<ExprStmt(AssignOp(Id("r"), "+=", Id("i")))>>),
       Return(Id("r")) >>

\* int test_function(int x) { TestBody }
TestFunction ==
    N("function_definition",
      << Leaf("primitive_type", "int"),
         N("function_declarator",
           << Id("test_function"),
              N("parameter_list",
                << Tok("("),
                   N("parameter_declaration", <<Leaf("primitive_type", "int"), Id("x")>>),
                   Tok(")") >>) >>),
         Block(OnePerLine(TestBody)) >>)

\* statements the CFG specification builds function bodies from
CfgStmts ==
    { DeclInit("x", Id("y")),
      ExprStmt(Assign(Id("x"), Plus(Id("y"), Id("y")))),
      If(Id("x"), <<ExprStmt(Assign(Id("y"), Id("x")))>>),
      While(Id("x"), <<Break>>),
      For(<<ExprStmt(Assign(Id("y"), Id("x")))>>),
      Return(Id("x")),
      Break,
      Continue,
      Switch(Id("x")),
      Goto("L"),
      DoWhile(<<Break>>, Id("x")),
      Block(<<ExprStmt(Assign(Id("x"), Id("y")))>>) }

CfgFunctions ==
    {FuncNoBody("f"), TestFunction}
        \cup {FuncDef("f", b) : b \in SeqsUpTo(CfgStmts, MaxStmts)}

\* int *x = y;
DeclPointerInit(name, e) ==
    N("declaration",
      <<Leaf("primitive_type", "int"),
        N("init_declarator",
          <<N("pointer_declarator", <<Tok("*"), Id(name)>>), Tok("="), e>>),
        Tok(";")>>)

\* statements the PDG specification builds function bodies from
PdgStmts ==
    { DeclInit("x", Id("y")),
      DeclPlain("x"),
      DeclPointerInit("x", Id("y")),
      ExprStmt(Assign(Id("y"), Plus(Id("x"), Id("x")))),
      ExprStmt(Assign(Id("x"), Num("0"))),
      If(Id("x"), <<ExprStmt(Assign(Id("y"), Id("x")))>>),
      Return(Id("y")),
      ExprStmt(Call("free", Id("x"))) }

PdgFunctions ==
    {FuncNoBody("f"), TestFunction}
        \cup {FuncDef("f", b) : b \in SeqsUpTo(PdgStmts, MaxPdgStmts)}

\* the identifier names that occur in the modelled sources
Names == {"x", "y", "free", "r", "i"}

\* the sequences that list each element of a set once
Orders(S) == {s \in [1..Cardinality(S) -> S] : Range(s) = S}

\* the possible iteration orders of a set of names
Seeds == Orders(Names)

-----------------------------------------------------------------------------
(* CFG layer, per function: archive build_cfg.py *)

Entry == <<"entry", 0>>
Exit == <<"exit", 0>>
BlockId(k) == <<"block", k>>

EmptyGraph == [nodes |-> <<>>, edges |-> {}]

\* nx.DiGraph.add_node: nodes keep their insertion order
AddNode(g, u) ==
    IF u \in Range(g.nodes) THEN g ELSE [g EXCEPT !.nodes = Append(@, u)]

\* nx.DiGraph.add_edge: a repeated edge is stored once, missing endpoints are added
AddEdge(g, u, v) ==
    LET g1 == AddNode(AddNode(g, u), v)
    IN  [g1 EXCEPT !.edges = @ \cup {<<u, v>>}]

\* faulty variant: counts the edges that arrive at the node
OutDegree_in(g, u) == Cardinality({e \in g.edges : e[2] = u})

OutDegree(g, u) == Cardinality({e \in g.edges : e[1] = u})

\* position of a node in the graph's node order
Rank(g, u) == CHOOSE i \in 1..Len(g.nodes) : g.nodes[i] = u

RECURSIVE CyclesThrough(_, _)
\* simple cycles that extend the simple path `path` and whose first node is
\* their lowest-ranked node
CyclesThrough(g, path) ==
    LET last == path[Len(path)]
        succ == {e[2] : e \in {d \in g.edges : d[1] = last}}
        closed == IF path[1] \in succ THEN {path} ELSE {}
        next == {v \in succ : v \notin Range(path) /\ Rank(g, v) > Rank(g, path[1])}
    IN  closed \cup UNION {CyclesThrough(g, Append(path, v)) : v \in next}

\* nx.simple_cycles, as the set of cycles (each listed from its first node)
simple_cycles(g) == UNION {CyclesThrough(g, <<u>>) : u \in Range(g.nodes)}

\* statement kinds traverse_body hands to process_statement
BodyStmtTypes ==
    {"expression_statement", "declaration", "if_statement", "while_statement",
     "for_statement", "return_statement", "break_statement", "continue_statement",
     "switch_statement"}

\* statement kinds process_statement treats as control transfers
ControlTypes ==
    {"if_statement", "while_statement", "for_statement", "switch_statement",
     "break_statement", "continue_statement", "return_statement", "goto_statement"}

RECURSIVE traverse_body(_)
\* the statement nodes reached by traverse_body, in document order; a matched
\* statement is not descended into
traverse_body(node) ==
    IF node.type \in BodyStmtTypes THEN <<node>>
    ELSE Flatten([i \in 1..Len(node.children) |-> traverse_body(node.children[i])])

\* faulty variant: a control statement closes the block it is appended to
process_statement_joined(acc, node) ==
    IF node.type \in ControlTypes
    THEN [blocks |-> Append(acc.blocks, Append(acc.current, node.type)), current |-> <<>>]
    ELSE [acc EXCEPT !.current = Append(@, node.type)]

\* process_statement on the pair (basic_blocks, current_block); a block is the
\* sequence of its statements' kinds
process_statement(acc, node) ==
    IF node.type \in ControlTypes
    THEN [blocks |-> (IF acc.current # <<>> THEN Append(acc.blocks, acc.current)
                      ELSE acc.blocks) \o << <<node.type>> >>,
          current |-> <<>>]
    ELSE [acc EXCEPT !.current = Append(@, node.type)]

RECURSIVE ProcessAll(_, _)
ProcessAll(acc, stmts) ==
    IF stmts = <<>> THEN acc
    ELSE ProcessAll(process_statement(acc, Head(stmts)), Tail(stmts))

_extract_basic_blocks(body_node) ==
    LET acc == ProcessAll([blocks |-> <<>>, current |-> <<>>], traverse_body(body_node))
    IN  IF acc.current # <<>> THEN Append(acc.blocks, acc.current) ELSE acc.blocks

\* faulty variant: the branch edge targets the next block
BranchTarget_adjacent(i, n) == IF i + 2 <= n THEN BlockId(i + 2) ELSE Exit

\* the target of the branch edge of block i (0-based) among n blocks
BranchTarget(i, n) == IF i + 3 <= n THEN BlockId(i + 3) ELSE Exit

\* faulty variant: the chain without its return case
BranchStmt_noreturn(g, i, n, type) ==
    IF type \in {"if_statement", "while_statement", "for_statement"}
    THEN IF i + 2 <= n THEN AddEdge(g, BlockId(i + 1), BranchTarget(i, n)) ELSE g
    ELSE IF type \in {"while_statement", "for_statement"}
    THEN AddEdge(g, BlockId(i + 1), BlockId(i + 1))
    ELSE g

\* one statement of block i (0-based) in _add_branch_edges: the if / elif / elif chain
BranchStmt(g, i, n, type) ==
    IF type \in {"if_statement", "while_statement", "for_statement"}
    THEN IF i + 2 <= n THEN AddEdge(g, BlockId(i + 1), BranchTarget(i, n)) ELSE g
    ELSE IF type \in {"while_statement", "for_statement"}
    THEN AddEdge(g, BlockId(i + 1), BlockId(i + 1))
    ELSE IF type = "return_statement"
    THEN AddEdge(g, BlockId(i + 1), Exit)
    ELSE g

RECURSIVE BranchBlock(_, _, _, _)
BranchBlock(g, i, n, stmts) ==
    IF stmts = <<>> THEN g
    ELSE BranchBlock(BranchStmt(g, i, n, Head(stmts)), i, n, Tail(stmts))

RECURSIVE BranchFrom(_, _, _)
BranchFrom(g, i, blocks) ==
    IF i >= Len(blocks) THEN g
    ELSE BranchFrom(BranchBlock(g, i, Len(blocks), blocks[i + 1]), i + 1, blocks)

_add_branch_edges(g, basic_blocks) == BranchFrom(g, 0, basic_blocks)

RECURSIVE SequentialEdges(_, _, _)
SequentialEdges(g, i, n) ==
    IF i >= n THEN g
    ELSE SequentialEdges(AddEdge(g, BlockId(i), BlockId(i + 1)), i + 1, n)

\* faulty variant: the last block is left without its edge to exit
_add_control_flow_edges_open(g, basic_blocks) ==
    LET n == Len(basic_blocks)
        linear == IF n > 0
                  THEN SequentialEdges(AddEdge(g, Entry, BlockId(1)), 1, n)
                  ELSE AddEdge(g, Entry, Exit)
    IN  _add_branch_edges(linear, basic_blocks)

_add_control_flow_edges(g, basic_blocks) ==
    LET n == Len(basic_blocks)
        linear == IF n > 0
                  THEN AddEdge(SequentialEdges(AddEdge(g, Entry, BlockId(1)), 1, n),
                               BlockId(n), Exit)
                  ELSE AddEdge(g, Entry, Exit)
    IN  _add_branch_edges(linear, basic_blocks)

RECURSIVE AddBlockNodes(_, _, _)
AddBlockNodes(g, i, n) ==
    IF i > n THEN g ELSE AddBlockNodes(AddNode(g, BlockId(i)), i + 1, n)

\* faulty variant: the stand-in graph built without its entry -> exit edge
_create_minimal_cfg_unlinked ==
    [success |-> TRUE, node_count |-> 2, edge_count |-> 0, complexity |-> 1,
     cycles |-> {}, exit_nodes |-> <<Entry, Exit>>, basic_blocks |-> 0]

_create_minimal_cfg ==
    [success |-> TRUE, node_count |-> 2, edge_count |-> 1, complexity |-> 1,
     cycles |-> {}, exit_nodes |-> <<Exit>>, basic_blocks |-> 0]

\* the first compound_statement child of the function_definition, or None
FindBody(func_node) ==
    LET idx == {i \in 1..Len(func_node.children) :
                    func_node.children[i].type = "compound_statement"}
    IN  IF idx = {} THEN None
        ELSE func_node.children[CHOOSE i \in idx : \A j \in idx : i <= j]

\* the blocks _build_function_cfg extracts from a function that has a body
BlocksOf(func_node) == _extract_basic_blocks(FindBody(func_node))

\* the graph _build_function_cfg fills for a function that has a body: entry,
\* one node per block, exit, then the control-flow edges
GraphOf(func_node) ==
    LET basic_blocks == BlocksOf(func_node)
        n == Len(basic_blocks)
    IN  _add_control_flow_edges(
            AddNode(AddBlockNodes(AddNode(EmptyGraph, Entry), 1, n), Exit), basic_blocks)

\* the metrics of _build_function_cfg
Complexity(edge_count, node_count) == Max(1, edge_count - node_count + 2)

\* record returned when the build of one function raised
CfgFunctionFailure(msg) ==
    [success |-> FALSE, error |-> clean_error_message(msg, FunctionErrorCap),
     node_count |-> 0, edge_count |-> 0, complexity |-> 1]

\* _build_function_cfg; exc is the message of the exception raised inside its
\* try block, NoExc when nothing is raised
_build_function_cfg(func_node, exc) ==
    IF exc # NoExc THEN CfgFunctionFailure(exc)
    ELSE LET body_node == FindBody(func_node)
         IN  IF body_node = None THEN _create_minimal_cfg
             ELSE LET basic_blocks == _extract_basic_blocks(body_node)
                      n == Len(basic_blocks)
                      g0 == AddNode(AddBlockNodes(AddNode(EmptyGraph, Entry), 1, n), Exit)
                      cfg == _add_control_flow_edges(g0, basic_blocks)
                      node_count == Len(cfg.nodes)
                      edge_count == Cardinality(cfg.edges)
                  IN  IF basic_blocks = <<>> THEN _create_minimal_cfg
                      ELSE [success |-> TRUE,
                            node_count |-> node_count,
                            edge_count |-> edge_count,
                            complexity |-> Complexity(edge_count, node_count),
                            cycles |-> simple_cycles(cfg),
                            exit_nodes |-> SelectSeq(cfg.nodes,
                                                     LAMBDA u : OutDegree(cfg, u) = 0),
                            basic_blocks |-> n]

-----------------------------------------------------------------------------
(* CFG layer, per function: current build_cfg.py *)

RECURSIVE SplitTokens(_, _, _)
\* str.split(sep) on a token text: the segments between separators
SplitTokens(toks, sep, cur) ==
    IF toks = <<>> THEN <<cur>>
    ELSE IF Head(toks) = sep THEN <<cur>> \o SplitTokens(Tail(toks), sep, <<>>)
    ELSE SplitTokens(Tail(toks), sep, Append(cur, Head(toks)))

\* the function's text split at ';', blank pieces dropped
_extract_basic_blocks_safe(func_node) ==
    SelectSeq(SplitTokens(func_node.text, ";", <<>>), LAMBDA b : b # <<>>)

CfgFunctionFailureSafe(msg) ==
    [success |-> FALSE, error |-> Take(msg, FunctionErrorCap),
     node_count |-> 0, edge_count |-> 0]

\* block ids of the current builder are 0-based
_build_function_cfg_safe(func_node, exc) ==
    IF exc # NoExc THEN CfgFunctionFailureSafe(exc)
    ELSE LET blocks == _extract_basic_blocks_safe(func_node)
             n == Len(blocks)
             g0 == AddBlockNodes(AddNode(AddNode(EmptyGraph, Entry), Exit), 0, n - 1)
             cfg == IF n > 0
                    THEN AddEdge(AddEdge(g0, Entry, BlockId(0)), BlockId(n - 1), Exit)
                    ELSE g0
         IN  [success |-> TRUE,
              node_count |-> Len(cfg.nodes),
              edge_count |-> Cardinality(cfg.edges),
              complexity |-> n,
              cycles |-> {},
              exit_nodes |-> <<Exit>>]

\* the per-function CFG builder of the running generation
BuildFunctionCfg(v, func_node, exc) ==
    IF v = "archive" THEN _build_function_cfg(func_node, exc)
    ELSE _build_function_cfg_safe(func_node, exc)

-----------------------------------------------------------------------------
(* PDG layer, per function: archive build_pdg.py *)

RECURSIVE PreOrder(_)
\* the nodes of a subtree in pre-order (a node, then its children left to right)
PreOrder(node) ==
    <<node>> \o Flatten([i \in 1..Len(node.children) |-> PreOrder(node.children[i])])

\* the decoded text of a single-token leaf (an identifier, a type name)
TextOf(node) == node.text[1]

UnknownType == "unknown"

\* var_type = None (like the empty string, it selects 'unknown')
NoType == ""

\* index of the first element of s satisfying P, 0 when there is none
FirstIndex(s, P(_)) ==
    LET idx == {i \in 1..Len(s) : P(s[i])}
    IN  IF idx = {} THEN 0 ELSE CHOOSE i \in idx : \A j \in idx : i <= j

NestedDeclarators == {"pointer_declarator", "array_declarator", "declarator"}

RECURSIVE _extract_declarator_info_ast(_, _, _)
\* returns at the first child that is an identifier or a nested declarator
_extract_declarator_info_ast(node, var_type, line_num) ==
    LET k == FirstIndex(node.children,
                        LAMBDA c : c.type = "identifier" \/ c.type \in NestedDeclarators)
    IN  IF k = 0 THEN None
        ELSE IF node.children[k].type = "identifier"
        THEN [name |-> TextOf(node.children[k]),
              type |-> IF var_type = NoType THEN UnknownType ELSE var_type,
              is_pointer |-> node.type = "pointer_declarator",
              is_array |-> node.type = "array_declarator",
              line |-> line_num]
        ELSE _extract_declarator_info_ast(node.children[k], var_type, line_num)

DeclaratorTypes ==
    {"init_declarator", "declarator", "pointer_declarator", "array_declarator"}

\* one child of a declaration in _parse_variable_declaration_ast; acc is the
\* pair (var_type, variables)
ParseDeclChild(acc, child, line_num) ==
    IF child.type \in {"primitive_type", "type_identifier"}
    THEN [acc EXCEPT !.var_type = TextOf(child)]
    ELSE IF child.type \in DeclaratorTypes
    THEN LET var_info == _extract_declarator_info_ast(child, acc.var_type, line_num)
         IN  IF var_info # None THEN [acc EXCEPT !.variables = Append(@, var_info)] ELSE acc
    ELSE IF child.type = "identifier"
    THEN [acc EXCEPT !.variables =
              Append(@, [name |-> TextOf(child),
                         type |-> IF acc.var_type = NoType THEN UnknownType ELSE acc.var_type,
                         is_pointer |-> FALSE,
                         is_array |-> FALSE,
                         line |-> line_num])]
    ELSE acc

RECURSIVE ParseDeclChildren(_, _, _)
ParseDeclChildren(acc, children, line_num) ==
    IF children = <<>> THEN acc
    ELSE ParseDeclChildren(ParseDeclChild(acc, Head(children), line_num),
                           Tail(children), line_num)

_parse_variable_declaration_ast(node) ==
    ParseDeclChildren([var_type |-> NoType, variables |-> <<>>],
                      node.children, node.line).variables

\* a Python dict as a function from its keys; assignment overwrites
EmptyDict == <<>>
\* faulty variant: a key that is present keeps its value
DictSet_keep(d, key, val) ==
    [k \in DOMAIN d \cup {key} |-> IF k \in DOMAIN d THEN d[k] ELSE val]

DictSet(d, key, val) == [k \in DOMAIN d \cup {key} |-> IF k = key THEN val ELSE d[k]]

RECURSIVE StoreVariables(_, _, _)
\* variables[var['name']] = {...} for each parsed variable of one declaration
StoreVariables(variables, var_info, is_parameter) ==
    IF var_info = <<>> THEN variables
    ELSE LET var == Head(var_info)
         IN  StoreVariables(
                 DictSet(variables, var.name,
                         [type |-> var.type,
                          declaration_line |-> var.line,
                          is_parameter |-> is_parameter,
                          is_pointer |-> var.is_pointer,
                          is_array |-> var.is_array,
                          scope |-> "function"]),
                 Tail(var_info), is_parameter)

RECURSIVE ExtractVariablesFrom(_, _)
ExtractVariablesFrom(variables, nodes) ==
    IF nodes = <<>> THEN variables
    ELSE LET node == Head(nodes)
             next == IF node.type \in {"declaration", "parameter_declaration"}
                     THEN StoreVariables(variables, _parse_variable_declaration_ast(node),
                                         node.type = "parameter_declaration")
                     ELSE variables
         IN  ExtractVariablesFrom(next, Tail(nodes))

\* the walk visits every node; only the declarations among them store anything
_extract_variables_ast(func_node) ==
    ExtractVariablesFrom(EmptyDict,
        SelectSeq(PreOrder(func_node),
                  LAMBDA m : m.type \in {"declaration", "parameter_declaration"}))

\* identifier texts _extract_variable_usage_ast filters out
UsageFilter == {"if", "while", "for", "return", "int", "char", "float", "double"}

\* list(set(xs)): the distinct elements, in the iteration order of the process's
\* string hashing (seed lists the names in that order)
ListOfSet(xs, seed) == SelectSeq(seed, LAMBDA n : n \in Range(xs))

\* faulty variant: only the first name of the set's iteration is kept
_extract_variable_usage_ast_one(node, seed) ==
    LET ids == SelectSeq(PreOrder(node),
                         LAMBDA m : m.type = "identifier" /\ TextOf(m) \notin UsageFilter)
    IN  Take(ListOfSet([i \in 1..Len(ids) |-> TextOf(ids[i])], seed), 1)

_extract_variable_usage_ast(node, seed) ==
    LET ids == SelectSeq(PreOrder(node),
                         LAMBDA m : m.type = "identifier" /\ TextOf(m) \notin UsageFilter)
    IN  ListOfSet([i \in 1..Len(ids) |-> TextOf(ids[i])], seed)

\* what one visited node adds to defined_vars
DefinedAt(node) ==
    IF node.type = "assignment_expression"
    THEN IF node.children # <<>> /\ node.children[1].type = "identifier"
         THEN <<TextOf(node.children[1])>> ELSE <<>>
    ELSE IF node.type = "init_declarator"
    THEN LET k == FirstIndex(node.children, LAMBDA c : c.type = "identifier")
         IN  IF k = 0 THEN <<>> ELSE <<TextOf(node.children[k])>>
    ELSE <<>>

_extract_variable_definitions_ast(node) ==
    LET nodes == PreOrder(node)
    IN  Flatten([i \in 1..Len(nodes) |-> DefinedAt(nodes[i])])

CalledAt(node) ==
    IF node.type = "call_expression"
    THEN LET k == FirstIndex(node.children, LAMBDA c : c.type = "identifier")
         IN  IF k = 0 THEN <<>> ELSE <<TextOf(node.children[k])>>
    ELSE <<>>

_extract_function_calls_ast(node) ==
    LET nodes == PreOrder(node)
    IN  Flatten([i \in 1..Len(nodes) |-> CalledAt(nodes[i])])

\* node kinds _extract_statements_ast records as statements
StatementTypes ==
    {"expression_statement", "declaration", "assignment_expression", "call_expression",
     "if_statement", "while_statement", "for_statement", "return_statement"}

\* cap of a stored statement text (counted in tokens here)
StatementTextCap == 200
OperationTextCap == 100

_extract_statements_ast(func_node, seed) ==
    LET nodes == SelectSeq(PreOrder(func_node), LAMBDA m : m.type \in StatementTypes)
    IN  [i \in 1..Len(nodes) |->
            [id |-> i - 1,
             line |-> nodes[i].line,
             text |-> Take(nodes[i].text, StatementTextCap),
             type |-> nodes[i].type,
             variables_used |-> _extract_variable_usage_ast(nodes[i], seed),
             variables_defined |-> _extract_variable_definitions_ast(nodes[i]),
             function_calls |-> _extract_function_calls_ast(nodes[i])]]

\* how a dependency names a statement: f"stmt_{id}" in the archive, the bare id
\* in the current builder
StmtRef(v, id) == IF v = "archive" THEN <<"stmt", id>> ELSE id

\* faulty variant: the scan starts at the statement itself
LastDefiner_self(statements, i, used_var) ==
    LET defs == {j \in 1..i : used_var \in Range(statements[j].variables_defined)}
    IN  IF defs = {} THEN 0 ELSE CHOOSE j \in defs : \A k \in defs : k <= j

\* position (1-based) of the closest statement before position i that defines
\* used_var, 0 when there is none: the scan for j in range(i-1, -1, -1)
LastDefiner(statements, i, used_var) ==
    LET defs == {j \in 1..(i - 1) : used_var \in Range(statements[j].variables_defined)}
    IN  IF defs = {} THEN 0 ELSE CHOOSE j \in defs : \A k \in defs : k <= j

\* the dependency appended for one entry of stmt['variables_used'], if any
DependencyFor(v, statements, i, used_var) ==
    LET j == LastDefiner(statements, i, used_var)
    IN  IF j = 0 THEN <<>>
        ELSE << [source |-> StmtRef(v, statements[j].id),
                 target |-> StmtRef(v, statements[i].id),
                 variable |-> used_var,
                 edge_info |-> [type |-> "data_dependency",
                                variable |-> used_var,
                                source_line |-> statements[j].line,
                                target_line |-> statements[i].line]] >>

\* faulty variant: the statements are scanned from the last to the first
_analyze_dependencies_backward(v, statements) ==
    Flatten([i \in 1..Len(statements) |->
        Flatten([u \in 1..Len(statements[Len(statements) + 1 - i].variables_used) |->
            DependencyFor(v, statements, Len(statements) + 1 - i,
                          statements[Len(statements) + 1 - i].variables_used[u])])])

\* _analyze_dependencies (the same loop in both generations)
_analyze_dependencies(v, statements) ==
    Flatten([i \in 1..Len(statements) |->
        Flatten([u \in 1..Len(statements[i].variables_used) |->
            DependencyFor(v, statements, i, statements[i].variables_used[u])])])

\* (token, cue) pairs: the lower-cased token contains the cue as a substring
SubstringPairs ==
    { <<"[", "[">>, <<"]", "]">>, <<"*", "*">>, <<"=", "=">>, <<"==", "=">>, <<"+=", "=">>,
      <<"if", "if">>, <<"int", "int">>, <<"free", "free">>, <<"malloc", "malloc">>,
      <<"strcpy", "strcpy">>, <<"&", "&">>, <<"&&", "&">>, <<"->", "->">> }

\* cue in text.lower()
TextHas(text, cue) == \E i \in 1..Len(text) : <<text[i], cue>> \in SubstringPairs

TextHasAny(text, cues) == \E cue \in cues : TextHas(text, cue)

\* config.TRACKED_FUNCTIONS
TRACKED_FUNCTIONS ==
    {"gets", "sprintf", "strcpy", "strcat", "scanf", "printf", "fprintf", "snprintf",
     "vsnprintf", "malloc", "free", "calloc", "realloc", "new", "delete", "new[]",
     "delete[]", "strncpy", "strncat", "vsprintf", "fgets", "fscanf"}

\* the entry a statement adds to one pattern bucket
PatternEntry(stmt, kind) ==
    [line |-> stmt.line, statement |-> Take(stmt.text, OperationTextCap), type |-> kind]

TrackedCalls(stmt) ==
    LET calls == SelectSeq(stmt.function_calls, LAMBDA f : f \in TRACKED_FUNCTIONS)
    IN  [i \in 1..Len(calls) |->
            [line |-> stmt.line, function |-> calls[i],
             statement |-> Take(stmt.text, OperationTextCap)]]

_analyze_code_patterns(statements) ==
    [buffer_operations |->
        Flatten([i \in 1..Len(statements) |->
            IF TextHasAny(statements[i].text, {"[", "strcpy", "strcat", "memcpy", "memset"})
            THEN <<PatternEntry(statements[i], "buffer_operation")>> ELSE <<>>]),
     pointer_operations |->
        Flatten([i \in 1..Len(statements) |->
            IF TextHasAny(statements[i].text, {"->", "*", "&"})
            THEN <<PatternEntry(statements[i], "pointer_operation")>> ELSE <<>>]),
     memory_operations |->
        Flatten([i \in 1..Len(statements) |->
            IF TextHasAny(statements[i].text, {"malloc", "free", "calloc", "realloc"})
            THEN <<PatternEntry(statements[i], "memory_operation")>> ELSE <<>>]),
     function_calls |->
        Flatten([i \in 1..Len(statements) |-> TrackedCalls(statements[i])])]

_count_pattern_indicators(patterns) ==
    [buffer_ops |-> Len(patterns.buffer_operations),
     pointer_ops |-> Len(patterns.pointer_operations),
     memory_ops |-> Len(patterns.memory_operations),
     tracked_funcs |-> Len(patterns.function_calls)]

\* _build_function_pdg (archive).  The networkx graph it fills is never
\* returned or read, so it has no counterpart here.
_build_function_pdg_ast(func_node, seed) ==
    LET variables == _extract_variables_ast(func_node)
        statements == _extract_statements_ast(func_node, seed)
        dependencies == _analyze_dependencies("archive", statements)
        patterns == _analyze_code_patterns(statements)
    IN  [variables |-> variables,
         statements |-> statements,
         dependencies |-> dependencies,
         patterns |-> patterns,
         variable_count |-> Cardinality(DOMAIN variables),
         dependency_count |-> Len(dependencies),
         statement_count |-> Len(statements),
         vulnerability_indicators |-> _count_pattern_indicators(patterns)]

-----------------------------------------------------------------------------
(* PDG layer, per function: current build_pdg.py (regular expressions over  *)
(* the statement text, here over its tokens)                                *)

\* tokens the pattern [a-zA-Z_][a-zA-Z0-9_]* matches
WordTokens ==
    {"int", "x", "y", "f", "g", "L", "free", "if", "else", "return", "while", "for",
     "break", "continue", "switch", "goto", "do", "r", "i", "test_function"}

c_keywords == {"int", "char", "float", "double", "if", "else", "for", "while", "return", "sizeof"}

\* tokens that begin with '='
StartsWithEq == {"=", "=="}

\* position just after an optional bracket group (?:\[.*?\])? that starts at
\* position i, as the set of positions the regular expression can continue from
AfterBrackets(text, i) ==
    {i} \cup (IF i <= Len(text) /\ text[i] = "["
              THEN {j + 1 : j \in {k \in (i + 1)..Len(text) : text[k] = "]"}}
              ELSE {})

\* _extract_variable_usage: every word of the text that is not a keyword,
\* repeats kept
_extract_variable_usage(text) ==
    SelectSeq(text, LAMBDA t : t \in WordTokens /\ t \notin c_keywords)

\* a word at position i is followed by an optional bracket group and a token
\* from `closers`
FollowedBy(text, i, closers) ==
    \E j \in AfterBrackets(text, i + 1) : j <= Len(text) /\ text[j] \in closers

\* _extract_variable_definitions: the words followed by '='
_extract_variable_definitions(text) ==
    LET hits == SelectSeq([i \in 1..Len(text) |-> i],
                          LAMBDA i : text[i] \in WordTokens /\ FollowedBy(text, i, StartsWithEq))
    IN  [k \in 1..Len(hits) |-> text[hits[k]]]

\* _parse_variable_declaration: name of the first word followed by '=', ';' or ','
_parse_variable_declaration(node) ==
    LET text == node.text
        hits == {i \in 1..Len(text) :
                    text[i] \in WordTokens /\ FollowedBy(text, i, StartsWithEq \cup {";", ","})}
    IN  IF hits = {} THEN None
        ELSE [name |-> text[CHOOSE i \in hits : \A j \in hits : i <= j],
              type |-> IF TextHas(text, "int") THEN "int"
                       ELSE IF TextHas(text, "char") THEN "char"
                       ELSE IF TextHas(text, "float") THEN "float"
                       ELSE IF TextHas(text, "double") THEN "double"
                       ELSE "unknown",
              is_pointer |-> TextHas(text, "*"),
              is_array |-> TextHas(text, "[") /\ TextHas(text, "]")]

RECURSIVE ExtractVariablesRegex(_, _)
ExtractVariablesRegex(variables, nodes) ==
    IF nodes = <<>> THEN variables
    ELSE LET node == Head(nodes)
             var_info == _parse_variable_declaration(node)
             next == IF node.type \in {"declaration", "parameter_declaration"}
                        /\ var_info # None
                     THEN DictSet(variables, var_info.name,
                                  [type |-> var_info.type,
                                   declaration_line |-> node.line,
                                   is_parameter |-> node.type = "parameter_declaration",
                                   is_pointer |-> var_info.is_pointer,
                                   is_array |-> var_info.is_array,
                                   scope |-> "function"])
                     ELSE variables
         IN  ExtractVariablesRegex(next, Tail(nodes))

_extract_variables(func_node) ==
    ExtractVariablesRegex(EmptyDict,
        SelectSeq(PreOrder(func_node),
                  LAMBDA m : m.type \in {"declaration", "parameter_declaration"}))

RECURSIVE StatementNodes(_)
\* _process_statement: a node, then its children other than '{', '}' and ';'
StatementNodes(node) ==
    <<node>> \o Flatten([i \in 1..Len(node.children) |->
                            IF node.children[i].type \in {"{", "}", ";"} THEN <<>>
                            ELSE StatementNodes(node.children[i])])

\* the nodes _extract_statements visits: the children of each compound_statement
\* child of the function, braces left out
BodyStatementNodes(func_node) ==
    Flatten([i \in 1..Len(func_node.children) |->
        IF func_node.children[i].type = "compound_statement"
        THEN LET body == func_node.children[i]
             IN  Flatten([k \in 1..Len(body.children) |->
                     IF body.children[k].type \in {"{", "}"} THEN <<>>
                     ELSE StatementNodes(body.children[k])])
        ELSE <<>>])

_extract_statements(func_node) ==
    LET nodes == BodyStatementNodes(func_node)
    IN  [i \in 1..Len(nodes) |->
            [id |-> i - 1,
             line |-> nodes[i].line,
             text |-> Take(nodes[i].text, StatementTextCap),
             type |-> nodes[i].type,
             variables_used |-> _extract_variable_usage(nodes[i].text),
             variables_defined |-> _extract_variable_definitions(nodes[i].text),
             is_assignment |-> nodes[i].type = "assignment_expression"
                               \/ TextHas(nodes[i].text, "="),
             is_function_call |-> nodes[i].type = "call_expression"
                                  \/ \E k \in 1..Len(nodes[i].children) :
                                         nodes[i].children[k].type = "call_expression",
             is_control_flow |-> nodes[i].type \in {"if_statement", "for_statement",
                                                    "while_statement", "return_statement"}]]

\* tracked_funcs of _analyze_vulnerability_patterns, in list order
tracked_funcs == <<"strcpy", "strcat", "sprintf", "gets", "scanf", "malloc", "free">>

_analyze_vulnerability_patterns(statements) ==
    [buffer_operations |->
        Flatten([i \in 1..Len(statements) |->
            IF TextHasAny(statements[i].text, {"[", "strcpy", "memcpy", "strcat"})
            THEN <<PatternEntry(statements[i], "buffer_operation")>> ELSE <<>>]),
     pointer_operations |->
        Flatten([i \in 1..Len(statements) |->
            IF TextHasAny(statements[i].text, {"*", "->"})
            THEN <<PatternEntry(statements[i], "pointer_operation")>> ELSE <<>>]),
     unchecked_operations |->
        Flatten([i \in 1..Len(statements) |->
            IF TextHas(statements[i].text, "=") /\ ~TextHas(statements[i].text, "if")
               /\ TextHasAny(statements[i].text, {"malloc", "fopen", "strcpy"})
            THEN <<PatternEntry(statements[i], "unchecked_operation")>> ELSE <<>>]),
     dangerous_functions |->
        Flatten([i \in 1..Len(statements) |->
            IF TextHasAny(statements[i].text, Range(tracked_funcs))
            THEN << [line |-> statements[i].line,
                     statement |-> Take(statements[i].text, OperationTextCap),
                     functions |-> SelectSeq(tracked_funcs,
                                             LAMBDA f : TextHas(statements[i].text, f))] >>
            ELSE <<>>])]

_count_vulnerability_indicators(patterns) ==
    [buffer_ops |-> Len(patterns.buffer_operations),
     pointer_ops |-> Len(patterns.pointer_operations),
     unchecked_ops |-> Len(patterns.unchecked_operations),
     dangerous_funcs |-> Len(patterns.dangerous_functions)]

\* _build_function_pdg (current)
_build_function_pdg(func_node) ==
    LET variables == _extract_variables(func_node)
        statements == _extract_statements(func_node)
        dependencies == _analyze_dependencies("current", statements)
        patterns == _analyze_vulnerability_patterns(statements)
    IN  [variables |-> variables,
         statements |-> statements,
         dependencies |-> dependencies,
         patterns |-> patterns,
         variable_count |-> Cardinality(DOMAIN variables),
         dependency_count |-> Len(dependencies),
         statement_count |-> Len(statements),
         vulnerability_indicators |-> _count_vulnerability_indicators(patterns)]

\* the per-function PDG builder of the running generation; neither generation
\* catches an exception raised inside it
BuildFunctionPdg(v, func_node, seed) ==
    IF v = "archive" THEN _build_function_pdg_ast(func_node, seed)
    ELSE _build_function_pdg(func_node)

-----------------------------------------------------------------------------
(* AST layer: archive extract_ast.py *)

\* config.AST_MAX_DEPTH (archive) and the max_depth the current extractor passes
AST_MAX_DEPTH == 10
SafeMaxDepth == 10

\* cap of a stored pointer / array operation text (counted in tokens here)
AstOperationCap == 50

RECURSIVE SumSeq(_)
SumSeq(s) == IF s = <<>> THEN 0 ELSE Head(s) + SumSeq(Tail(s))

RECURSIVE MaxSeq(_)
\* max over a sequence of naturals, 0 when empty
MaxSeq(s) == IF s = <<>> THEN 0 ELSE Max(Head(s), MaxSeq(Tail(s)))

\* faulty variant: the ceiling itself is already beyond
BeyondCeiling_early(current_depth, max_depth) == current_depth >= max_depth

\* `if current_depth > max_depth: return 1`
BeyondCeiling(current_depth, max_depth) == current_depth > max_depth

RECURSIVE _count_nodes(_, _, _)
_count_nodes(node, current_depth, max_depth) ==
    IF BeyondCeiling(current_depth, max_depth) THEN 1
    ELSE 1 + SumSeq([i \in 1..Len(node.children) |->
                        _count_nodes(node.children[i], current_depth + 1, max_depth)])

RECURSIVE _calculate_depth(_, _)
_calculate_depth(node, current_depth) ==
    IF node.children = <<>> THEN current_depth
    ELSE MaxSeq([i \in 1..Len(node.children) |->
                    _calculate_depth(node.children[i], current_depth + 1)])

\* index of the last element of s satisfying P, 0 when there is none
LastIndex(s, P(_)) ==
    LET idx == {i \in 1..Len(s) : P(s[i])}
    IN  IF idx = {} THEN 0 ELSE CHOOSE i \in idx : \A j \in idx : j <= i

\* the children of every function_declarator child, concatenated
DeclaratorParts(node) ==
    Flatten([i \in 1..Len(node.children) |->
        IF node.children[i].type = "function_declarator"
        THEN node.children[i].children ELSE <<>>])

\* _parse_function_definition: the loops overwrite, so the last match stays
_parse_function_definition(node) ==
    LET parts == DeclaratorParts(node)
        n == LastIndex(parts, LAMBDA c : c.type = "identifier")
        t == LastIndex(node.children,
                       LAMBDA c : c.type \in {"primitive_type", "type_identifier"})
        lists == SelectSeq(parts, LAMBDA c : c.type = "parameter_list")
        params == SelectSeq(Flatten([i \in 1..Len(lists) |-> lists[i].children]),
                            LAMBDA c : c.type = "parameter_declaration")
    IN  IF n = 0 THEN None
        ELSE [name |-> TextOf(parts[n]),
              return_type |-> IF t = 0 THEN UnknownType ELSE TextOf(node.children[t]),
              params |-> [i \in 1..Len(params) |-> params[i].text],
              line |-> node.line]

\* the items f yields for the nodes of the tree, in pre-order (f returns a
\* sequence: empty when the node contributes nothing)
Collect(root_node, f(_)) ==
    LET nodes == PreOrder(root_node)
    IN  Flatten([i \in 1..Len(nodes) |-> f(nodes[i])])

\* The visit of one node can raise (a RecursionError at the call that enters
\* it, or inside the helper that parses it).  A visit fault is
\* [at |-> "visit", list, node, site, msg]: in the extraction of `list`, the
\* visit of the node at pre-order position `node` raises, at site "traverse"
\* (the traverse function itself) or "helper" (inside the helper called on it).
VisitFaultOn(f, list) ==
    IF f.at = "visit" THEN f.list = list ELSE FALSE

\* the items a list extraction collects when its except branch, if it has one,
\* ends the traversal at the faulty visit (site "traverse") or its helper
\* swallows the exception and yields nothing for the node (site "helper")
CollectUnder(root_node, f(_), flt, list) ==
    LET nodes == PreOrder(root_node)
    IN  Flatten([i \in 1..Len(nodes) |->
            IF VisitFaultOn(flt, list)
               /\ (i = flt.node \/ (flt.site = "traverse" /\ i > flt.node))
            THEN <<>> ELSE f(nodes[i])])

_extract_functions(root_node, flt) ==
    CollectUnder(root_node,
            LAMBDA m : IF m.type = "function_definition"
                          /\ _parse_function_definition(m) # None
                       THEN <<_parse_function_definition(m)>> ELSE <<>>,
            flt, "functions")

_parse_function_call(node) ==
    LET n == LastIndex(node.children, LAMBDA c : c.type = "identifier")
        lists == SelectSeq(node.children, LAMBDA c : c.type = "argument_list")
        args == SelectSeq(Flatten([i \in 1..Len(lists) |-> lists[i].children]),
                          LAMBDA c : c.type \notin {",", "(", ")"})
    IN  IF n = 0 THEN None
        ELSE [function |-> TextOf(node.children[n]),
              args |-> [i \in 1..Len(args) |-> args[i].text],
              line |-> node.line]

_extract_function_calls(root_node, flt) ==
    CollectUnder(root_node,
            LAMBDA m : IF m.type = "call_expression" /\ _parse_function_call(m) # None
                       THEN <<_parse_function_call(m)>> ELSE <<>>,
            flt, "calls")

\* faulty variant: a nested declarator is not followed
_extract_declarator_info_flat(node, var_type) ==
    LET k == FirstIndex(node.children, LAMBDA c : c.type = "identifier")
    IN  IF k = 0 THEN None
        ELSE [name |-> TextOf(node.children[k]),
              type |-> IF var_type = NoType THEN UnknownType ELSE var_type,
              is_pointer |-> node.type = "pointer_declarator",
              is_array |-> node.type = "array_declarator"]

RECURSIVE _extract_declarator_info(_, _)
_extract_declarator_info(node, var_type) ==
    LET k == FirstIndex(node.children,
                        LAMBDA c : c.type = "identifier" \/ c.type \in NestedDeclarators)
    IN  IF k = 0 THEN None
        ELSE IF node.children[k].type = "identifier"
        THEN [name |-> TextOf(node.children[k]),
              type |-> IF var_type = NoType THEN UnknownType ELSE var_type,
              is_pointer |-> node.type = "pointer_declarator",
              is_array |-> node.type = "array_declarator"]
        ELSE _extract_declarator_info(node.children[k], var_type)

\* one child of a declaration in the pattern extractor's
\* _parse_variable_declaration; acc is the pair (var_type, variables)
AstDeclChild(acc, child, line_num) ==
    IF child.type \in {"primitive_type", "type_identifier"}
    THEN [acc EXCEPT !.var_type = TextOf(child)]
    ELSE IF child.type \in DeclaratorTypes
    THEN LET var_info == _extract_declarator_info(child, acc.var_type)
         IN  IF var_info # None
             THEN [acc EXCEPT !.variables =
                       Append(@, [name |-> var_info.name, type |-> var_info.type,
                                  is_pointer |-> var_info.is_pointer,
                                  is_array |-> var_info.is_array,
                                  line |-> line_num])]
             ELSE acc
    ELSE acc

RECURSIVE AstDeclChildren(_, _, _)
AstDeclChildren(acc, children, line_num) ==
    IF children = <<>> THEN acc
    ELSE AstDeclChildren(AstDeclChild(acc, Head(children), line_num),
                         Tail(children), line_num)

AstParseVariableDeclaration(node) ==
    AstDeclChildren([var_type |-> NoType, variables |-> <<>>],
                    node.children, node.line).variables

AstExtractVariables(root_node, flt) ==
    CollectUnder(root_node,
            LAMBDA m : IF m.type \in {"declaration", "parameter_declaration"}
                       THEN AstParseVariableDeclaration(m) ELSE <<>>,
            flt, "variables")

_extract_pointer_operations(root_node, flt) ==
    CollectUnder(root_node,
            LAMBDA m : IF m.type \in {"pointer_expression", "field_expression"}
                       THEN << [operation |-> Take(m.text, AstOperationCap),
                                type |-> m.type, line |-> m.line] >>
                       ELSE <<>>,
            flt, "pointers")

_extract_array_operations(root_node, flt) ==
    CollectUnder(root_node,
            LAMBDA m : IF m.type = "subscript_expression"
                       THEN << [operation |-> Take(m.text, AstOperationCap),
                                line |-> m.line] >>
                       ELSE <<>>,
            flt, "arrays")

\* a flat scan for node kinds: {type, line} per match
KindScan(root_node, kinds, flt, list) ==
    CollectUnder(root_node,
            LAMBDA m : IF m.type \in kinds
                       THEN << [type |-> m.type, line |-> m.line] >> ELSE <<>>,
            flt, list)

_extract_conditionals(root_node, flt) ==
    KindScan(root_node, {"if_statement", "conditional_expression", "switch_statement"},
             flt, "conditions")

_extract_loops(root_node, flt) ==
    KindScan(root_node, {"for_statement", "while_statement", "do_statement"},
             flt, "loops")

-----------------------------------------------------------------------------
(* AST layer: current extract_ast.py *)

RECURSIVE count_nodes_safe(_, _, _)
count_nodes_safe(node, max_depth, current_depth) ==
    IF BeyondCeiling(current_depth, max_depth) THEN 1
    ELSE 1 + SumSeq([i \in 1..Len(node.children) |->
                        count_nodes_safe(node.children[i], max_depth, current_depth + 1)])

\* get_function_name_safe / _get_function_name: the first identifier found in
\* a function_declarator child, None when there is none
_get_function_name(node) ==
    LET ids == SelectSeq(DeclaratorParts(node), LAMBDA c : c.type = "identifier")
    IN  IF ids = <<>> THEN None ELSE [name |-> TextOf(ids[1])]

extract_functions_safe(root_node, flt) ==
    CollectUnder(root_node,
            LAMBDA m : IF m.type = "function_definition" /\ _get_function_name(m) # None
                       THEN << [name |-> _get_function_name(m).name, line |-> m.line] >>
                       ELSE <<>>,
            flt, "functions")

extract_function_calls_safe(root_node, flt) ==
    CollectUnder(root_node,
            LAMBDA m : IF m.type = "call_expression"
                          /\ FirstIndex(m.children, LAMBDA c : c.type = "identifier") # 0
                       THEN << [function |->
                                   TextOf(m.children[FirstIndex(m.children,
                                              LAMBDA c : c.type = "identifier")]),
                                line |-> m.line] >>
                       ELSE <<>>,
            flt, "calls")

\* the identifier grandchildren of a declaration under its init / array /
\* pointer declarator children
DeclaredNames(decl) ==
    LET wrappers == SelectSeq(decl.children,
                              LAMBDA c : c.type \in {"init_declarator", "array_declarator",
                                                     "pointer_declarator"})
        ids == SelectSeq(Flatten([i \in 1..Len(wrappers) |-> wrappers[i].children]),
                         LAMBDA c : c.type = "identifier")
    IN  [i \in 1..Len(ids) |-> [name |-> TextOf(ids[i]), line |-> decl.line]]

extract_variables_safe(root_node, flt) ==
    CollectUnder(root_node,
            LAMBDA m : IF m.type = "declaration" THEN DeclaredNames(m) ELSE <<>>,
            flt, "variables")

extract_conditions_safe(root_node, flt) ==
    KindScan(root_node, {"if_statement", "conditional_expression"},
             flt, "conditions")

extract_loops_safe(root_node, flt) ==
    KindScan(root_node, {"for_statement", "while_statement", "do_statement"},
             flt, "loops")

-----------------------------------------------------------------------------
(* The unit of code under analysis and the exceptions raised while it is    *)
(* analysed.  fault.at tells where an exception is raised:                   *)
(*   "none"  nowhere;                                                        *)
(*   "parse" in parser.parse, in every layer;                                *)
(*   "walk"  in the node count of the pattern extractor;                     *)
(*   "funcs" in the per-function CFG / PDG build of the functions named in   *)
(*           fault.names.                                                    *)

NoFault == [at |-> "none", msg |-> NoExc, names |-> {}]

\* the message of the exception the build of function `name` raises
FunctionExc(unit, name) ==
    IF unit.fault.at = "funcs" /\ name \in unit.fault.names THEN unit.fault.msg ELSE NoExc

RECURSIVE SumOver(_, _)
\* sum of f over the keys of a dict
SumOver(d, field) ==
    IF DOMAIN d = {} THEN 0
    ELSE LET key == CHOOSE x \in DOMAIN d : TRUE
         IN  d[key][field] + SumOver([x \in DOMAIN d \ {key} |-> d[x]], field)

IsNamedFunction(node) ==
    node.type = "function_definition" /\ _get_function_name(node) # None

RECURSIVE DictOfFunctions(_, _)
\* functions[func_name] = node, for the named function definitions in order
DictOfFunctions(functions, nodes) ==
    IF nodes = <<>> THEN functions
    ELSE DictOfFunctions(
            DictSet(functions, _get_function_name(Head(nodes)).name, Head(nodes)),
            Tail(nodes))

\* _find_functions (archive CFG and PDG, current PDG): the whole tree is searched
_find_functions(root_node) ==
    DictOfFunctions(EmptyDict, SelectSeq(PreOrder(root_node), IsNamedFunction))

\* _find_functions_safe (current CFG): only the children of the root
_find_functions_safe(root_node) ==
    DictOfFunctions(EmptyDict, SelectSeq(root_node.children, IsNamedFunction))

-----------------------------------------------------------------------------
(* The layer builders.  Each returns [val |-> record] or Raised(msg) when an *)
(* exception leaves it.                                                      *)

Returned(record) == [val |-> record]

\* faulty variant: the failure record keeps a node count
AstFailure_counted(msg) ==
    [success |-> FALSE, error |-> clean_error_message(msg, LayerErrorCap),
     node_count |-> 1, depth |-> 0, patterns |-> EmptyDict]

\* archive extract_ast_patterns_internal, except branch
AstFailure(msg) ==
    [success |-> FALSE, error |-> clean_error_message(msg, LayerErrorCap),
     node_count |-> 0, depth |-> 0, patterns |-> EmptyDict]

\* an exception raised in a traverse function of the archive extractor: none
\* of them has a handler, so it leaves the list extraction
LeavesTraverse(flt) ==
    IF flt.at = "visit" THEN flt.site = "traverse" ELSE FALSE

\* archive extract_ast_patterns_internal
extract_ast_patterns_internal(unit) ==
    IF unit.fault.at \in {"parse", "walk"} \/ LeavesTraverse(unit.fault)
    THEN Returned(AstFailure(unit.fault.msg))
    ELSE Returned(
        [success |-> TRUE,
         node_count |-> _count_nodes(unit.root, 0, AST_MAX_DEPTH),
         depth |-> _calculate_depth(unit.root, 0),
         patterns |-> [functions |-> _extract_functions(unit.root, unit.fault),
                       calls |-> _extract_function_calls(unit.root, unit.fault),
                       variables |-> AstExtractVariables(unit.root, unit.fault),
                       pointers |-> _extract_pointer_operations(unit.root, unit.fault),
                       arrays |-> _extract_array_operations(unit.root, unit.fault),
                       conditions |-> _extract_conditionals(unit.root, unit.fault),
                       loops |-> _extract_loops(unit.root, unit.fault)]])

\* current extract_ast_patterns_internal; the success record carries error = None
extract_ast_patterns_internal_safe(unit) ==
    IF unit.fault.at \in {"parse", "walk"}
    THEN Returned(
        [success |-> FALSE, error |-> Take(unit.fault.msg, LayerErrorCap),
         node_count |-> 0, functions |-> <<>>, variables |-> <<>>,
         function_calls |-> <<>>, conditions |-> <<>>, loops |-> <<>>])
    ELSE Returned(
        [success |-> TRUE,
         node_count |-> count_nodes_safe(unit.root, SafeMaxDepth, 0),
         functions |-> extract_functions_safe(unit.root, unit.fault),
         variables |-> extract_variables_safe(unit.root, unit.fault),
         function_calls |-> extract_function_calls_safe(unit.root, unit.fault),
         conditions |-> extract_conditions_safe(unit.root, unit.fault),
         loops |-> extract_loops_safe(unit.root, unit.fault),
         error |-> None])

\* record both CFG and PDG builders return from their outer except branch
LayerFailure(error) == [success |-> FALSE, error |-> error, functions |-> EmptyDict]

\* the success record of the CFG builders, from the per-function results
CfgSuccess(cfg_results) ==
    [success |-> TRUE,
     functions |-> cfg_results,
     global_stats |-> [total_functions |-> Cardinality(DOMAIN cfg_results),
                       total_nodes |-> SumOver(cfg_results, "node_count"),
                       total_edges |-> SumOver(cfg_results, "edge_count")]]

\* the loop of the archive builder over the functions found
CfgLoop(unit, functions) ==
    CfgSuccess([name \in DOMAIN functions |->
                   _build_function_cfg(functions[name], FunctionExc(unit, name))])

\* archive build_simple_cfg_internal
build_simple_cfg_internal(unit) ==
    IF unit.fault.at = "parse"
    THEN Returned(LayerFailure(clean_error_message(unit.fault.msg, LayerErrorCap)))
    ELSE Returned(CfgLoop(unit, _find_functions(unit.root)))

\* the loop of the current builder over the functions found
CfgLoopSafe(unit, functions) ==
    CfgSuccess([name \in DOMAIN functions |->
                   _build_function_cfg_safe(functions[name], FunctionExc(unit, name))])

\* current build_simple_cfg_internal
build_simple_cfg_internal_safe(unit) ==
    IF unit.fault.at = "parse"
    THEN Returned(LayerFailure(clean_error_message(unit.fault.msg, LayerErrorCap)))
    ELSE Returned(CfgLoopSafe(unit, _find_functions_safe(unit.root)))

\* the success record of the PDG builders, from the per-function results
PdgSuccess(pdg_results) ==
    [success |-> TRUE,
     functions |-> pdg_results,
     global_stats |-> [total_variables |-> SumOver(pdg_results, "variable_count"),
                       total_dependencies |-> SumOver(pdg_results, "dependency_count"),
                       total_functions |-> Cardinality(DOMAIN pdg_results)]]

\* the loop of the PDG builders over the functions found: there is no handler
\* inside it, so the exception of one function's build ends it
PdgLoop(v, unit, functions, seed) ==
    IF \E name \in DOMAIN functions : FunctionExc(unit, name) # NoExc
    THEN Raised(unit.fault.msg)
    ELSE Returned(PdgSuccess([name \in DOMAIN functions |->
                                 BuildFunctionPdg(v, functions[name], seed)]))

\* the try block of the PDG builders: Raised(msg) when an exception ends it
PdgTry(v, unit, seed) ==
    IF unit.fault.at = "parse" THEN Raised(unit.fault.msg)
    ELSE PdgLoop(v, unit, _find_functions(unit.root), seed)

\* except Exception as e of the archive builder
PdgExcept(body) ==
    IF "raised" \in DOMAIN body
    THEN Returned(LayerFailure(clean_error_message(body.raised, LayerErrorCap)))
    ELSE body

\* archive build_simple_pdg_internal
build_simple_pdg_internal(unit, seed) == PdgExcept(PdgTry("archive", unit, seed))

\* except Exception as e of the current builder: the message is kept as it is
PdgExceptCurrent(body) ==
    IF "raised" \in DOMAIN body THEN Returned(LayerFailure(body.raised)) ELSE body

\* faulty variant: the builder without its except branch
build_simple_pdg_unguarded(unit, seed) == PdgTry("current", unit, seed)

\* current build_simple_pdg
build_simple_pdg(unit, seed) == PdgExceptCurrent(PdgTry("current", unit, seed))

Layers == {"ast", "cfg", "pdg"}

\* the function each entry point runs
Builder(v, layer, unit, seed) ==
    IF v = "archive"
    THEN CASE layer = "ast" -> extract_ast_patterns_internal(unit)
           [] layer = "cfg" -> build_simple_cfg_internal(unit)
           [] layer = "pdg" -> build_simple_pdg_internal(unit, seed)
    ELSE CASE layer = "ast" -> extract_ast_patterns_internal_safe(unit)
           [] layer = "cfg" -> build_simple_cfg_internal_safe(unit)
           [] layer = "pdg" -> build_simple_pdg(unit, seed)

\* whether the entry point runs its builder under the timeout wrapper: all do
\* except the current build_simple_pdg, which runs it in the caller's thread
Wrapped(v, layer) == ~(v = "current" /\ layer = "pdg")

-----------------------------------------------------------------------------
(* Specifications of the per-function builders: Init draws the function and *)
(* the fault, one action applies the builder.                               *)

Versions == {"archive", "current"}

CanonicalSeed == CHOOSE s \in Seeds : TRUE

\* a local name not bound yet
Unbound == [unbound |-> TRUE]

\* the batch state, at rest
BatchUnused ==
    /\ dirExists = TRUE
    /\ outcomes = <<>>
    /\ bpc = "unused"
    /\ raw_files = Unbound
    /\ success_count = Unbound
    /\ failed_files = Unbound
    /\ position = 0
    /\ attempts = <<>>
    /\ returned = None

\* the unit-builder state, at rest
UnitUnused ==
    /\ unitIn = None
    /\ unitLayer = ""
    /\ upc = "unused"
    /\ unitOut = None

\* the migrator's state, at rest
MigUnused ==
    /\ migData = <<>>
    /\ migBatchSize = 0
    /\ mpc = "unused"
    /\ migIdx = 0
    /\ migration_stats = None
    /\ migCollection = 0

OthersUnused == UnitUnused /\ MigUnused

\* the layer-call state, at rest
CallsUnused ==
    /\ input = [root |-> N("translation_unit", <<>>), fault |-> NoFault]
    /\ callNo = 1
    /\ cpc = "unused"
    /\ layerOf = [c \in 1..MaxCalls |-> ""]
    /\ worker = [c \in 1..MaxCalls |-> "none"]
    /\ elapsed = [c \in 1..MaxCalls |-> FALSE]
    /\ result = [c \in 1..MaxCalls |-> None]
    /\ exception = [c \in 1..MaxCalls |-> None]
    /\ ret = [c \in 1..MaxCalls |-> None]
    /\ thrown = [c \in 1..MaxCalls |-> NoExc]
    /\ deliveredFrom = [c \in 1..MaxCalls |-> 0]

InitCfg ==
    /\ version \in Versions
    /\ fn \in CfgFunctions
    /\ fault \in {NoExc} \cup ExcMsgs
    /\ fpc = "ready"
    /\ hashSeed = CanonicalSeed
    /\ cfgOut = None
    /\ pdgOut = None
    /\ firstRun = None
    /\ CallsUnused
    /\ BatchUnused
    /\ OthersUnused

\* one call of the per-function CFG builder
BuildCfg ==
    /\ fpc = "ready"
    /\ fpc' = "built"
    /\ cfgOut' = BuildFunctionCfg(version, fn, fault)
    /\ UNCHANGED <<version, batchVars, otherVars, fn, fault, hashSeed, pdgOut, firstRun, callVars>>

NextCfg == BuildCfg

SpecCfg == InitCfg /\ [][NextCfg]_vars

\* the names a function's identifiers spell
UsedNames(func_node) ==
    {TextOf(m) : m \in {n \in Range(PreOrder(func_node)) : n.type = "identifier"}}

\* the hash orders that can tell on a function: every order of the names it
\* uses, the names it does not use trailing in one fixed order
SeedsOf(func_node) ==
    LET used == UsedNames(func_node) \cap Names
        unused == SelectSeq(CanonicalSeed, LAMBDA n : n \notin used)
    IN  {order \o unused : order \in Orders(used)}

\* functions analysed between two runs on fn
OtherFunctions == {FuncDef("g", <<ExprStmt(Assign(Id("y"), Id("x")))>>)}

InitPdg ==
    /\ version \in Versions
    /\ fn \in PdgFunctions
    /\ fault \in {NoExc} \cup ExcMsgs
    /\ fpc = "ready"
    /\ hashSeed \in SeedsOf(fn)
    /\ cfgOut = None
    /\ pdgOut = None
    /\ firstRun = None
    /\ CallsUnused
    /\ BatchUnused
    /\ OthersUnused

\* what one call of the per-function PDG builder hands back
PdgCall(v, func_node, exc, seed) ==
    IF exc # NoExc THEN Raised(exc) ELSE BuildFunctionPdg(v, func_node, seed)

\* one call of the per-function PDG builder
BuildPdg ==
    /\ fpc = "ready"
    /\ fpc' = "built"
    /\ pdgOut' = PdgCall(version, fn, fault, hashSeed)
    /\ UNCHANGED <<version, batchVars, otherVars, fn, fault, hashSeed, cfgOut, firstRun, callVars>>

\* the caller keeps the result the run on fn returned and the builder is called
\* on another function of the unit
OtherCall ==
    /\ fpc = "built"
    /\ fault = NoExc
    /\ \E other \in OtherFunctions :
           pdgOut' = PdgCall(version, other, NoExc, hashSeed)
    /\ firstRun' = [out |-> pdgOut, seed |-> hashSeed, between |-> TRUE]
    /\ fpc' = "between"
    /\ UNCHANGED <<version, batchVars, otherVars, fn, fault, hashSeed, cfgOut, callVars>>

\* the result is kept (on disk) and the interpreter exits; the next run
\* happens in a new process, whose string hashing is seeded afresh
NewProcess ==
    /\ fpc = "built"
    /\ fault = NoExc
    /\ firstRun' = [out |-> pdgOut, seed |-> hashSeed, between |-> FALSE]
    /\ hashSeed' \in SeedsOf(fn) \ {hashSeed}
    /\ pdgOut' = None
    /\ fpc' = "restarted"
    /\ UNCHANGED <<version, batchVars, otherVars, fn, fault, cfgOut, callVars>>

\* a second run of the builder on fn
BuildPdgAgain ==
    /\ fpc \in {"built", "between", "restarted"}
    /\ fault = NoExc
    /\ firstRun' = IF firstRun = None
                   THEN [out |-> pdgOut, seed |-> hashSeed, between |-> FALSE]
                   ELSE firstRun
    /\ pdgOut' = PdgCall(version, fn, fault, hashSeed)
    /\ fpc' = "rebuilt"
    /\ UNCHANGED <<version, batchVars, otherVars, fn, fault, hashSeed, cfgOut, callVars>>

NextPdg == BuildPdg \/ OtherCall \/ NewProcess \/ BuildPdgAgain

SpecPdg == InitPdg /\ [][NextPdg]_vars

-----------------------------------------------------------------------------
(* Batch processing: scripts/process_all_files.py *)

\* how the subprocess launched for one raw file can end: exit code 0, another
\* exit code, subprocess.TimeoutExpired, any other exception of subprocess.run
Outcomes == {"exit_0", "exit_nonzero", "timeout", "launch_error"}

InitBatch ==
    /\ version = "current"
    /\ hashSeed = CanonicalSeed
    /\ fn = None /\ fault = NoExc /\ fpc = "unused" /\ cfgOut = None /\ pdgOut = None
    /\ firstRun = None
    /\ CallsUnused
    /\ OthersUnused
    /\ dirExists \in BOOLEAN
    /\ outcomes \in SeqsUpTo(Outcomes, MaxFiles)
    /\ bpc = "start"
    /\ raw_files = Unbound
    /\ success_count = Unbound
    /\ failed_files = Unbound
    /\ position = 0
    /\ attempts = [f \in 1..Len(outcomes) |-> 0]
    /\ returned = None

\* faulty variant: a subprocess that timed out is recorded nowhere
Tally_unrecorded(count, failed, raw_file, outcome) ==
    IF outcome = "exit_0"
    THEN [success_count |-> count + 1, failed_files |-> failed]
    ELSE IF outcome = "timeout"
    THEN [success_count |-> count, failed_files |-> failed]
    ELSE [success_count |-> count, failed_files |-> Append(failed, raw_file)]

\* the body of the loop after subprocess.run: the return-code test and the
\* two except branches
Tally(count, failed, raw_file, outcome) ==
    IF outcome = "exit_0"
    THEN [success_count |-> count + 1, failed_files |-> failed]
    ELSE [success_count |-> count, failed_files |-> Append(failed, raw_file)]

\* the directory test, the glob and the two early returns; a raw file is
\* named by its rank in sorted order
FindFiles ==
    /\ bpc = "start"
    /\ IF ~dirExists
       THEN /\ returned' = [val |-> FALSE]
            /\ bpc' = "done"
            /\ UNCHANGED <<raw_files, success_count, failed_files>>
       ELSE /\ raw_files' = [f \in 1..Len(outcomes) |-> f]
            /\ IF Len(outcomes) = 0
               THEN /\ returned' = [val |-> FALSE]
                    /\ bpc' = "done"
                    /\ UNCHANGED <<success_count, failed_files>>
               ELSE /\ success_count' = 0
                    /\ failed_files' = <<>>
                    /\ bpc' = "loop"
                    /\ UNCHANGED returned
    /\ UNCHANGED <<version, hashSeed, funcVars, callVars, otherVars, dirExists, outcomes, position,
                   attempts>>

\* one pass of for raw_file in sorted(raw_files): the subprocess is launched
\* and its end is tallied
ProcessNext ==
    /\ bpc = "loop"
    /\ position < Len(raw_files)
    /\ LET raw_file == raw_files[position + 1]
           tally == Tally(success_count, failed_files, raw_file, outcomes[raw_file])
       IN  /\ attempts' = [attempts EXCEPT ![raw_file] = @ + 1]
           /\ success_count' = tally.success_count
           /\ failed_files' = tally.failed_files
    /\ position' = position + 1
    /\ UNCHANGED <<version, hashSeed, funcVars, callVars, otherVars, dirExists, outcomes, bpc,
                   raw_files, returned>>

\* the summary after the loop and the return value
Summary ==
    /\ bpc = "loop"
    /\ position = Len(raw_files)
    /\ returned' = [val |-> success_count = Len(raw_files)]
    /\ bpc' = "done"
    /\ UNCHANGED <<version, hashSeed, funcVars, callVars, otherVars, dirExists, outcomes, raw_files,
                   success_count, failed_files, position, attempts>>

NextBatch == FindFiles \/ ProcessNext \/ Summary

SpecBatch == InitBatch /\ [][NextBatch]_vars

\* the files whose subprocess does not end with exit code 0
FailingFiles == {f \in 1..Len(outcomes) : outcomes[f] # "exit_0"}

-----------------------------------------------------------------------------
(* Specification of the layer calls: a caller calls the entry points        *)
(* extract_ast_patterns, build_simple_cfg and build_simple_pdg one after     *)
(* another, in this order, on one unit of code.  A wrapped entry point starts a daemon       *)
(* thread on its builder, joins it for the layer's budget, then looks at     *)
(* is_alive(), exception[0] and result[0].  The current build_simple_pdg     *)
(* runs its builder in the caller's thread.                                  *)

\* the top-level items units of code are made of
UnitItems ==
    { FuncDef("f", <<DeclInit("x", Id("y")),
                     If(Id("x"), <<ExprStmt(Assign(Id("y"), Id("x")))>>),
                     Return(Id("x"))>>),
      FuncDef("g", <<ExprStmt(Assign(Id("x"), Plus(Id("y"), Id("y"))))>>) }

Units == {N("translation_unit", items) : items \in SeqsUpTo(UnitItems, MaxFuncs)}

\* the message of the exceptions raised past the parse
WalkMsg == CHOOSE msg \in ExcMsgs : Strip(msg) # msg

Faults ==
    {NoFault}
      \cup {[at |-> "parse", msg |-> msg, names |-> {}] : msg \in ExcMsgs}
      \cup {[at |-> "walk", msg |-> WalkMsg, names |-> {}]}
      \cup {[at |-> "funcs", msg |-> WalkMsg, names |-> names] :
                names \in (SUBSET {"f", "g"}) \ {{}}}

\* {'success': False, 'error': 'timeout'}
TimeoutRecord == [success |-> FALSE, error |-> <<"t", "i", "m", "e", "o", "u", "t">>]

\* faulty variant: result and exception shared by all calls
CellOf_shared(c) == 1

\* the closure cells of call c: result = [None], exception = [None] are
\* created by each call of the wrapper
CellOf(c) == c

Init ==
    /\ version \in Versions
    /\ hashSeed = CanonicalSeed
    /\ fn = None /\ fault = NoExc /\ fpc = "unused" /\ cfgOut = None /\ pdgOut = None
    /\ firstRun = None
    /\ BatchUnused
    /\ OthersUnused
    /\ input \in [root : Units, fault : Faults]
    /\ callNo = 1
    /\ cpc = "idle"
    /\ layerOf = [c \in 1..MaxCalls |-> ""]
    /\ worker = [c \in 1..MaxCalls |-> "none"]
    /\ elapsed = [c \in 1..MaxCalls |-> FALSE]
    /\ result = [c \in 1..MaxCalls |-> None]
    /\ exception = [c \in 1..MaxCalls |-> None]
    /\ ret = [c \in 1..MaxCalls |-> None]
    /\ thrown = [c \in 1..MaxCalls |-> NoExc]
    /\ deliveredFrom = [c \in 1..MaxCalls |-> 0]

\* the layer called after a layer: ast_patterns, cfg_patterns, pdg_patterns of
\* one entry, then those of the next
NextLayer(layer) ==
    CASE layer = "ast" -> "cfg"
      [] layer = "cfg" -> "pdg"
      [] layer = "pdg" -> "ast"

\* the caller calls the entry point of a layer: any layer first, then the
\* layers in their order
StartCall(layer) ==
    /\ cpc = "idle"
    /\ callNo <= MaxCalls
    /\ IF callNo = 1 THEN TRUE ELSE layer = NextLayer(layerOf[callNo - 1])
    /\ layerOf' = [layerOf EXCEPT ![callNo] = layer]
    /\ worker' = [worker EXCEPT ![callNo] = "running"]
    /\ IF Wrapped(version, layer)
       THEN /\ cpc' = "join"
            /\ result' = [result EXCEPT ![CellOf(callNo)] = None]
            /\ exception' = [exception EXCEPT ![CellOf(callNo)] = None]
       ELSE /\ cpc' = "inline"
            /\ UNCHANGED <<result, exception>>
    /\ UNCHANGED <<version, batchVars, otherVars, hashSeed, funcVars, input, callNo, elapsed,
                ret, thrown,
                   deliveredFrom>>

\* try: result[0] = func(*args); except Exception as e: exception[0] = e
TargetStores(c, out) ==
    IF "raised" \in DOMAIN out
    THEN /\ exception' = [exception EXCEPT ![CellOf(c)] = [exc |-> out.raised, by |-> c]]
         /\ UNCHANGED result
    ELSE /\ result' = [result EXCEPT ![CellOf(c)] = [val |-> out.val, by |-> c]]
         /\ UNCHANGED exception

\* target(): the worker of call c runs its builder to the end, whether or not
\* its caller still waits for it
WorkerFinish(c) ==
    /\ worker[c] = "running"
    /\ Wrapped(version, layerOf[c])
    /\ worker' = [worker EXCEPT ![c] = "dead"]
    /\ TargetStores(c, Builder(version, layerOf[c], input, hashSeed))
    /\ UNCHANGED <<version, batchVars, otherVars, hashSeed, funcVars, input, callNo, cpc,
                layerOf, elapsed, ret,
                   thrown, deliveredFrom>>

\* the budget of the current call runs out while its builder is unfinished
BudgetExpires ==
    /\ cpc \in {"join", "inline"}
    /\ worker[callNo] = "running"
    /\ ~elapsed[callNo]
    /\ elapsed' = [elapsed EXCEPT ![callNo] = TRUE]
    /\ UNCHANGED <<version, batchVars, otherVars, hashSeed, funcVars, input, callNo, cpc,
                layerOf, worker, result,
                   exception, ret, thrown, deliveredFrom>>

\* faulty variant: the worker is taken for alive whenever the budget ran out
IsAlive_elapsed(c) == elapsed[c]

\* thread.is_alive(): the worker of call c has not ended
IsAlive(c) == worker[c] = "running"

\* thread.join(timeout_seconds) returns: the worker ended or the budget ran out
JoinReturns ==
    /\ cpc = "join"
    /\ worker[callNo] = "dead" \/ elapsed[callNo]
    /\ cpc' = "check"
    /\ UNCHANGED <<version, batchVars, otherVars, hashSeed, funcVars, input, callNo, layerOf,
                worker, elapsed,
                   result, exception, ret, thrown, deliveredFrom>>

\* if thread.is_alive(): timeout record; elif exception[0]: failure record;
\* else: result[0]
WrapperReturns ==
    /\ cpc = "check"
    /\ LET cell == CellOf(callNo)
       IN  IF IsAlive(callNo)
           THEN /\ ret' = [ret EXCEPT ![callNo] = TimeoutRecord]
                /\ UNCHANGED deliveredFrom
           ELSE IF exception[cell] # None
           THEN /\ ret' = [ret EXCEPT ![callNo] =
                              [success |-> FALSE, error |-> exception[cell].exc]]
                /\ deliveredFrom' = [deliveredFrom EXCEPT ![callNo] = exception[cell].by]
           ELSE /\ ret' = [ret EXCEPT ![callNo] = result[cell].val]
                /\ deliveredFrom' = [deliveredFrom EXCEPT ![callNo] = result[cell].by]
    /\ cpc' = "idle"
    /\ callNo' = callNo + 1
    /\ UNCHANGED <<version, batchVars, otherVars, hashSeed, funcVars, input, layerOf, worker,
                elapsed, result,
                   exception, thrown>>

\* what the caller of an unwrapped entry point gets: its value or its exception
CallerGets(out) ==
    IF "raised" \in DOMAIN out
    THEN /\ thrown' = [thrown EXCEPT ![callNo] = out.raised]
         /\ cpc' = "crashed"
         /\ UNCHANGED <<ret, deliveredFrom, callNo>>
    ELSE /\ ret' = [ret EXCEPT ![callNo] = out.val]
         /\ deliveredFrom' = [deliveredFrom EXCEPT ![callNo] = callNo]
         /\ cpc' = "idle"
         /\ callNo' = callNo + 1
         /\ UNCHANGED thrown

\* the unwrapped entry point returns what its builder returns, whenever that
\* is; an exception the builder lets out reaches the caller
InlineReturns ==
    /\ cpc = "inline"
    /\ worker[callNo] = "running"
    /\ worker' = [worker EXCEPT ![callNo] = "dead"]
    /\ CallerGets(Builder(version, layerOf[callNo], input, hashSeed))
    /\ UNCHANGED <<version, batchVars, otherVars, hashSeed, funcVars, input, layerOf, elapsed,
                result, exception>>

Next ==
    \/ \E layer \in Layers : StartCall(layer)
    \/ \E c \in 1..MaxCalls : WorkerFinish(c)
    \/ BudgetExpires
    \/ JoinReturns
    \/ WrapperReturns
    \/ InlineReturns

Spec == Init /\ [][Next]_vars

-----------------------------------------------------------------------------
(* Specification of the internal builders on one unit of code: Init draws   *)
(* the unit, the layer and the exception raised while it is analysed, one   *)
(* action runs the layer's internal builder (no timeout wrapper around it). *)

RECURSIVE ParenNest(_, _)
\* e inside d pairs of parentheses
ParenNest(e, d) == IF d = 0 THEN e ELSE Paren(ParenNest(e, d - 1))

\* int f() { x = (((y))); } with d pairs of parentheses: y sits at depth 5 + d
NestedFunction(d) == FuncDef("f", <<ExprStmt(Assign(Id("x"), ParenNest(Id("y"), d)))>>)

\* one declarator wrapper around a declarator
Wrap(kind, inner) ==
    CASE kind = "pointer_declarator" -> N("pointer_declarator", <<Tok("*"), inner>>)
      [] kind = "array_declarator" ->
             N("array_declarator", <<inner, Tok("["), Num("3"), Tok("]")>>)
      [] kind = "init_declarator" -> N("init_declarator", <<inner, Tok("="), Id("y")>>)

RECURSIVE WrapChain(_, _)
\* the declarator whose wrappers are `kinds`, outermost first, around `inner`
WrapChain(kinds, inner) ==
    IF kinds = <<>> THEN inner ELSE Wrap(Head(kinds), WrapChain(Tail(kinds), inner))

\* the wrapper chains of a C declarator: pointer and array wrappers in any
\* nesting, under an init_declarator when the declaration has an initialiser
WrapperChains ==
    LET inner == SeqsUpTo({"pointer_declarator", "array_declarator"}, MaxWrap)
    IN  inner \cup {<<"init_declarator">> \o c : c \in inner}

\* int <declarator of x>;
DeclOf(kinds, name) ==
    N("declaration", <<Leaf("primitive_type", "int"), WrapChain(kinds, Id(name)), Tok(";")>>)

\* int *name() { stmts }: the function_declarator sits under a pointer_declarator
PointerFuncDef(name, stmts) ==
    N("function_definition",
      <<Leaf("primitive_type", "int"),
        N("pointer_declarator", <<Tok("*"), FuncDeclarator(name)>>),
        Block(OnePerLine(stmts))>>)

Deref(e) == N("pointer_expression", <<Tok("*"), e>>)
Subscript(a, i) == N("subscript_expression", <<a, Tok("["), i, Tok("]")>>)

\* int f() { int *x = y; if (x) { y = *x; } while (x) { free(x[0]); if (y) { y = *y; } } }
PatternFunction ==
    FuncDef("f",
        << DeclPointerInit("x", Id("y")),
           If(Id("x"), <<ExprStmt(Assign(Id("y"), Deref(Id("x"))))>>),
           While(Id("x"),
                 << ExprStmt(Call("free", Subscript(Id("x"), Num("0")))),
                    If(Id("y"), <<ExprStmt(Assign(Id("y"), Deref(Id("y"))))>>) >>) >>)

UnitOf(items) == N("translation_unit", items)

PointerFunction == PointerFuncDef("f", <<ExprStmt(Assign(Id("x"), Plus(Id("y"), Id("y"))))>>)

\* the units the internal builders are run on
UnitRoots ==
    {UnitOf(<<NestedFunction(d)>>) : d \in 0..MaxNest}
      \cup {UnitOf(<<FuncDef("f", <<DeclOf(kinds, "x")>>)>>) : kinds \in WrapperChains}
      \cup {UnitOf(<<PointerFunction>>),
            UnitOf(<<PointerFunction, FuncDef("g", <<Return(Id("x"))>>)>>),
            UnitOf(<<PatternFunction>>)}

\* the lists of the pattern extractor (function_calls is the current name of calls)
PatternLists ==
    {"functions", "calls", "variables", "pointers", "arrays", "conditions", "loops"}

\* the list extractions whose per-node work is done by a helper with its own
\* handler (_parse_function_definition, _parse_function_call,
\* _parse_variable_declaration; get_function_name_safe, get_call_name_safe)
HelperLists(v) ==
    IF v = "archive" THEN {"functions", "calls", "variables"} ELSE {"functions", "calls"}

\* the exceptions a node visit of a list extraction can raise on a tree
VisitFaults(v, root_node) ==
    {[at |-> "visit", msg |-> WalkMsg, names |-> {}, list |-> l, node |-> k, site |-> st] :
        l \in PatternLists, k \in 1..Len(PreOrder(root_node)), st \in {"traverse"}}
      \cup
    {[at |-> "visit", msg |-> WalkMsg, names |-> {}, list |-> l, node |-> k, site |-> st] :
        l \in HelperLists(v), k \in 1..Len(PreOrder(root_node)), st \in {"helper"}}

InitUnit ==
    /\ version \in Versions
    /\ hashSeed = CanonicalSeed
    /\ fn = None /\ fault = NoExc /\ fpc = "unused" /\ cfgOut = None /\ pdgOut = None
    /\ firstRun = None
    /\ CallsUnused
    /\ BatchUnused
    /\ unitLayer \in Layers
    /\ \/ unitIn \in [root : UnitRoots, fault : {NoFault}]
       \/ /\ unitLayer = "ast"
          /\ unitIn \in [root : {UnitOf(<<PatternFunction>>)},
                         fault : VisitFaults(version, UnitOf(<<PatternFunction>>))]
    /\ upc = "ready"
    /\ unitOut = None
    /\ MigUnused

\* one run of the layer's internal builder on the unit
BuildUnit ==
    /\ upc = "ready"
    /\ upc' = "built"
    /\ unitOut' = Builder(version, unitLayer, unitIn, hashSeed)
    /\ UNCHANGED <<version, hashSeed, funcVars, callVars, batchVars, unitIn, unitLayer,
                   migVars>>

NextUnit == BuildUnit

SpecUnit == InitUnit /\ [][NextUnit]_vars

-----------------------------------------------------------------------------
(* Specification of the migration to the vector database: Init draws the    *)
(* loaded items and the batch size, one action per batch of migrate_data.   *)

\* Counter()[key] += 1
CounterAdd(counter, key) ==
    IF key \in DOMAIN counter THEN [counter EXCEPT ![key] = @ + 1]
    ELSE [k \in DOMAIN counter \cup {key} |-> IF k = key THEN 1 ELSE counter[k]]

RECURSIVE CounterSumOver(_, _)
CounterSumOver(counter, keys) ==
    IF keys = {} THEN 0
    ELSE LET k == CHOOSE x \in keys : TRUE
         IN  counter[k] + CounterSumOver(counter, keys \ {k})

\* sum(counter.values())
CounterSum(counter) == CounterSumOver(counter, DOMAIN counter)

\* Counter()
EmptyCounter == [k \in {} |-> 0]

\* the keywords of a solution text, the text being the sequence of its words
BoundsWords == {"bound", "check", "length", "size", "overflow"}
SyncWords == {"lock", "mutex", "sync", "atomic", "race"}
MemoryWords == {"free", "malloc", "memory", "leak", "allocation"}
ValidationWords == {"validate", "sanitize", "input", "check"}
InitWords == {"initialize", "null", "zero"}
ContextWords == {"condition", "context", "based on", "parameter", "usage", "misuse"}

\* extract_fix_pattern
extract_fix_pattern(solution) ==
    IF solution = <<>> THEN "unknown"
    ELSE IF Range(solution) \cap BoundsWords # {} THEN "bounds_check_added"
    ELSE IF Range(solution) \cap SyncWords # {} THEN "synchronization_added"
    ELSE IF Range(solution) \cap MemoryWords # {} THEN "memory_management"
    ELSE IF Range(solution) \cap ValidationWords # {} THEN "input_validation"
    ELSE IF Range(solution) \cap InitWords # {} THEN "initialization"
    ELSE "custom"

\* what determine_context_dependency returns for an item whose only semantic
\* text is its solution
ContextDependent(item) == Range(item.solution) \cap ContextWords # {}

\* transform_for_chromadb: None when the transformation raises (an item
\* without its '_metadata'), the document's metadata otherwise
transform_for_chromadb(item) ==
    IF ~item.has_metadata THEN None
    ELSE [cwe_id |-> item.cwe_id,
          fix_pattern |-> extract_fix_pattern(item.solution),
          context_dependent |-> ContextDependent(item)]

\* the solutions of the items: none, a bounds check, a text about the usage
Solutions == {<<>>, <<"add", "check">>, <<"fix", "usage">>}

\* the items of the data: one that cannot be transformed, and well-formed ones
Items ==
    {[has_metadata |-> FALSE, cwe_id |-> "", solution |-> <<>>]}
      \cup {[has_metadata |-> TRUE, cwe_id |-> cwe, solution |-> sol] :
                cwe \in {"CWE-416", "CWE-119"}, sol \in Solutions}

\* self.migration_stats of __init__
InitialStats ==
    [total_instances |-> 0, successful_migrations |-> 0, failed_migrations |-> 0,
     processing_time |-> 0, cwe_distribution |-> EmptyCounter,
     fix_patterns |-> EmptyCounter, context_dependent_count |-> 0]

\* the statistics after one item of a batch: acc holds the statistics and the
\* number of documents gathered for the insertion
ProcessItem(acc, item) ==
    LET transformed == transform_for_chromadb(item)
        counted == IF item.has_metadata /\ ContextDependent(item)
                   THEN [acc.stats EXCEPT !.context_dependent_count = @ + 1]
                   ELSE acc.stats
    IN  IF transformed # None
        THEN [stats |-> [counted EXCEPT
                            !.cwe_distribution = CounterAdd(@, transformed.cwe_id),
                            !.fix_patterns = CounterAdd(@, transformed.fix_pattern),
                            !.successful_migrations = @ + 1],
              documents |-> acc.documents + 1]
        ELSE [stats |-> [counted EXCEPT !.failed_migrations = @ + 1],
              documents |-> acc.documents]

RECURSIVE ProcessItems(_, _)
ProcessItems(acc, items) ==
    IF items = <<>> THEN acc
    ELSE ProcessItems(ProcessItem(acc, Head(items)), Tail(items))

InitMigrate ==
    /\ version \in Versions
    /\ hashSeed = CanonicalSeed
    /\ fn = None /\ fault = NoExc /\ fpc = "unused" /\ cfgOut = None /\ pdgOut = None
    /\ firstRun = None
    /\ CallsUnused
    /\ BatchUnused
    /\ UnitUnused
    /\ migData \in SeqsUpTo(Items, MaxItems)
    /\ migBatchSize \in 1..MaxBatchSize
    /\ mpc = "start"
    /\ migIdx = 0
    /\ migration_stats = InitialStats
    /\ migCollection = 0

\* data = self.load_hybrid_data(): the items are loaded and counted
LoadData ==
    /\ mpc = "start"
    /\ mpc' = "loop"
    /\ migration_stats' = [migration_stats EXCEPT !.total_instances = Len(migData)]
    /\ UNCHANGED <<version, hashSeed, funcVars, callVars, batchVars, unitVars, migData,
                   migBatchSize, migIdx, migCollection>>

\* one turn of the batch loop: the items are transformed and counted, then the
\* documents, if any, are inserted; add_raises tells whether collection.add
\* raises
MigrateBatch(add_raises) ==
    /\ mpc = "loop"
    /\ migIdx < Len(migData)
    /\ \E batch_data \in {SubSeq(migData, migIdx + 1,
                                  Min(migIdx + migBatchSize, Len(migData)))} :
       \E acc \in {ProcessItems([stats |-> migration_stats, documents |-> 0],
                                 batch_data)} :
          /\ (acc.documents = 0) => ~add_raises
          /\ IF acc.documents > 0 /\ add_raises
             THEN /\ migration_stats' =
                        [acc.stats EXCEPT
                            !.failed_migrations = @ + acc.documents,
                            !.successful_migrations = @ - acc.documents]
                  /\ UNCHANGED migCollection
             ELSE /\ migration_stats' = acc.stats
                  /\ migCollection' = migCollection + acc.documents
    /\ migIdx' = migIdx + migBatchSize
    /\ UNCHANGED <<version, hashSeed, funcVars, callVars, batchVars, unitVars, migData,
                   migBatchSize, mpc>>

\* the loop is over: the processing time is stored and migrate_data returns
MigrateReturns ==
    /\ mpc = "loop"
    /\ migIdx >= Len(migData)
    /\ mpc' = "done"
    /\ \E seconds \in {0, 1} :
          migration_stats' = [migration_stats EXCEPT !.processing_time = seconds]
    /\ UNCHANGED <<version, hashSeed, funcVars, callVars, batchVars, unitVars, migData,
                   migBatchSize, migIdx, migCollection>>

NextMigrate ==
    \/ LoadData
    \/ \E add_raises \in BOOLEAN : MigrateBatch(add_raises)
    \/ MigrateReturns

SpecMigrate == InitMigrate /\ [][NextMigrate]_vars

-----------------------------------------------------------------------------
(* Claims about the layer calls (Spec) *)

\* the calls that have returned a record to the caller
ReturnedCalls == {c \in 1..MaxCalls : ret[c] # None}

\* what the builder of a layer returns for the same code when nothing raises
Unfailed(layer) == Builder(version, layer, [input EXCEPT !.fault = NoFault], hashSeed).val

\* C1 (as claimed): a call whose builder had not finished when its budget
\* expired returns the record {success: false, error: 'timeout'}.
C1_Original ==
    \A c \in ReturnedCalls : elapsed[c] => ret[c] = TimeoutRecord

\* C2: what the worker of a call produces is never delivered to another call
\* and a record once returned to the caller never changes, also when the
\* worker of a timed-out call ends later.
C2_Discarded ==
    [][\A c \in 1..MaxCalls :
          /\ ret[c] # None => ret'[c] = ret[c]
          /\ deliveredFrom'[c] \in {0, c}]_vars

\* the first call returned the timeout record, its abandoned worker ended
\* later and stored its result, and the second call, of another layer, got
\* its own builder's result
C2_Witness ==
    /\ MaxCalls >= 2
    /\ ret[1] = TimeoutRecord
    /\ worker[1] = "dead"
    /\ result[CellOf(1)] # None
    /\ ret[2] # None /\ ret[2] # TimeoutRecord
    /\ layerOf[1] # layerOf[2]
    /\ deliveredFrom[2] = 2

\* an exception is raised inside a call of the layer: in the parse, in the
\* node count of the pattern extractor, or in the PDG build of a function
LayerRaises(layer) ==
    \/ input.fault.at = "parse"
    \/ layer = "ast" /\ input.fault.at = "walk"
    \/ /\ layer = "pdg"
       /\ input.fault.at = "funcs"
       /\ input.fault.names \cap DOMAIN _find_functions(input.root) # {}

\* the forms in which a record reports the message of an exception
ReasonForms(msg) ==
    {msg, Take(msg, LayerErrorCap), clean_error_message(msg, LayerErrorCap)}

\* C3: no exception reaches the caller of a layer entry point, and when an
\* exception is raised inside the call the record returned has success = false
\* and, unless it is the timeout record, the exception's message in error.
C3_NoExceptionEscapes ==
    \A c \in 1..MaxCalls :
        /\ thrown[c] = NoExc
        /\ (c \in ReturnedCalls /\ LayerRaises(layerOf[c]))
              => /\ ret[c].success = FALSE
                 /\ \/ ret[c] = TimeoutRecord
                    \/ ret[c].error \in ReasonForms(input.fault.msg)

\* the PDG build of a function raised and the call returned a failure record
\* with the reason
C3_Witness ==
    \E c \in ReturnedCalls :
        /\ layerOf[c] = "pdg"
        /\ input.fault.at = "funcs"
        /\ LayerRaises("pdg")
        /\ ret[c] # TimeoutRecord
        /\ ret[c].success = FALSE
        /\ thrown[c] = NoExc

\* the wrapper of the current call returns in this step
WrapperReturning == cpc = "check" /\ cpc' = "idle"

\* C29: when the worker ended before the budget expired without raising, the
\* wrapper returns exactly the value the builder returned; the timeout record
\* is never returned for a worker that has ended; and every return is exactly
\* one of the builder's value, the exception record and the timeout record.
C29_FinishedWorker ==
    [][WrapperReturning =>
          \A c \in {callNo} :
          \A out \in {Builder(version, layerOf[c], input, hashSeed)} :
             /\ (worker[c] = "dead" /\ ~elapsed[c] /\ "val" \in DOMAIN out)
                    => ret'[c] = out.val
             /\ worker[c] = "dead" => ret'[c] # TimeoutRecord
             /\ Cardinality({k \in {"value", "exception", "timeout"} :
                    CASE k = "value" ->
                            worker[c] = "dead" /\ "val" \in DOMAIN out
                               /\ ret'[c] = out.val
                      [] k = "exception" ->
                            worker[c] = "dead" /\ "raised" \in DOMAIN out
                               /\ ret'[c] = [success |-> FALSE, error |-> out.raised]
                      [] k = "timeout" ->
                            worker[c] = "running" /\ ret'[c] = TimeoutRecord}) = 1]_vars

\* a wrapped call whose worker ended within the budget returned its builder's
\* successful record
C29_Witness ==
    \E c \in ReturnedCalls :
        /\ Wrapped(version, layerOf[c])
        /\ worker[c] = "dead" /\ ~elapsed[c]
        /\ deliveredFrom[c] = c
        /\ \A out \in {Builder(version, layerOf[c], input, hashSeed)} :
              "val" \in DOMAIN out /\ ret[c] = out.val /\ ret[c].success = TRUE

NumericFields == {"node_count", "depth"}
ListFields == {"functions", "variables", "function_calls", "conditions", "loops", "patterns"}

\* C4: when the parse fails, the record of every layer has success = false,
\* every numeric field it carries is 0 and every list field it carries is empty.
C4_ParseFailure ==
    input.fault.at = "parse"
        => \A c \in ReturnedCalls :
              /\ ret[c].success = FALSE
              /\ \A field \in DOMAIN ret[c] :
                    /\ field \in NumericFields => ret[c][field] = 0
                    /\ field \in ListFields => ret[c][field] = <<>>

\* the parse failed, the pattern extractor returned its failure record and
\* the CFG or PDG builder returned its own
C4_Witness ==
    /\ MaxCalls >= 2
    /\ input.fault.at = "parse"
    /\ layerOf[1] = "ast" /\ ret[1] # None /\ "node_count" \in DOMAIN ret[1]
    /\ layerOf[2] \in {"cfg", "pdg"} /\ ret[2] # None /\ "functions" \in DOMAIN ret[2]

\* C5 (as claimed): whatever the outcome of a call, the record returned
\* carries every field the success record of its layer carries.
C5_Original ==
    \A c \in ReturnedCalls : DOMAIN Unfailed(layerOf[c]) \subseteq DOMAIN ret[c]

\* C6 (as claimed): when the CFG build of a function fails the function's
\* entry is {success: false, error, node_count: 0, edge_count: 0,
\* complexity: 1}, the result has success = true, the other functions' entries
\* are what they are without the failure and total_nodes / total_edges are
\* the sums over the functions built.
C6_Original ==
    \A c \in ReturnedCalls :
        (layerOf[c] = "cfg" /\ input.fault.at = "funcs" /\ ret[c] # TimeoutRecord)
            => /\ ret[c].success = TRUE
               /\ \A name \in DOMAIN ret[c].functions :
                     LET entry == ret[c].functions[name]
                     IN  IF name \in input.fault.names
                         THEN /\ DOMAIN entry = {"success", "error", "node_count",
                                                 "edge_count", "complexity"}
                              /\ entry.success = FALSE
                              /\ entry.node_count = 0
                              /\ entry.edge_count = 0
                              /\ entry.complexity = 1
                         ELSE entry = Unfailed("cfg").functions[name]
               /\ LET built == [name \in DOMAIN ret[c].functions \ input.fault.names |->
                                   ret[c].functions[name]]
                  IN  /\ ret[c].global_stats.total_nodes = SumOver(built, "node_count")
                      /\ ret[c].global_stats.total_edges = SumOver(built, "edge_count")

\* C7 (as claimed): when the PDG build of a function raises, the result still
\* holds the entries of the other functions and total_variables /
\* total_dependencies computed from them.
C7_Original ==
    \A c \in ReturnedCalls :
        (layerOf[c] = "pdg" /\ input.fault.at = "funcs" /\ ret[c] # TimeoutRecord)
            => LET others == Unfailed("pdg").functions
                   built == [name \in DOMAIN others \ input.fault.names |-> others[name]]
               IN  /\ \A name \in DOMAIN built :
                         /\ name \in DOMAIN ret[c].functions
                         /\ ret[c].functions[name] = built[name]
                   /\ "global_stats" \in DOMAIN ret[c]
                   /\ ret[c].global_stats.total_variables = SumOver(built, "variable_count")
                   /\ ret[c].global_stats.total_dependencies
                         = SumOver(built, "dependency_count")

-----------------------------------------------------------------------------
(* Claims about the per-function CFG builder (SpecCfg) *)

\* the function has no compound_statement child, or its body holds no
\* statement the block extraction picks up
\* no leading or trailing whitespace and no two whitespace characters in a row
Normalized(msg) ==
    /\ msg # <<>> => (msg[1] \notin Whitespace /\ msg[Len(msg)] \notin Whitespace)
    /\ \A i \in 1..(Len(msg) - 1) : ~(msg[i] \in Whitespace /\ msg[i + 1] \in Whitespace)

\* the per-function failure records inside a returned layer record
FunctionFailures(record) ==
    IF "functions" \in DOMAIN record
    THEN {record.functions[name] : name \in
             {k \in DOMAIN record.functions :
                 /\ "success" \in DOMAIN record.functions[k]
                 /\ record.functions[k].success = FALSE}}
    ELSE {}

\* C14 (as claimed): the error string of every failure record a layer returns
\* (layer failure, per-function failure, exception caught by the timeout
\* wrapper) has no leading or trailing whitespace, no run of whitespace, and
\* at most 100 characters (layer) or 50 characters (function).
C14_Original ==
    \A c \in ReturnedCalls :
        /\ ret[c].success = FALSE
              => Normalized(ret[c].error) /\ Len(ret[c].error) <= LayerErrorCap
        /\ \A failure \in FunctionFailures(ret[c]) :
              Normalized(failure.error) /\ Len(failure.error) <= FunctionErrorCap

NoBasicBlock(func_node) ==
    \/ FindBody(func_node) = None
    \/ traverse_body(FindBody(func_node)) = <<>>

\* C8: for a function whose body is missing or yields no basic block,
\* _build_function_cfg returns the fixed minimal graph: success, 2 nodes,
\* 1 edge, complexity 1, no cycle, exit_nodes = ['exit'].
C8_MinimalCfg ==
    (fpc = "built" /\ version = "archive" /\ fault = NoExc /\ NoBasicBlock(fn))
        => /\ cfgOut.success = TRUE
           /\ cfgOut.node_count = 2
           /\ cfgOut.edge_count = 1
           /\ cfgOut.complexity = 1
           /\ cfgOut.cycles = {}
           /\ cfgOut.exit_nodes = <<Exit>>

\* a body that is present and not empty, yet yields no block (only a goto or
\* an empty nested block in it), was built
C8_Witness ==
    /\ fpc = "built" /\ version = "archive" /\ fault = NoExc
    /\ FindBody(fn) # None
    /\ Len(FindBody(fn).children) > 2
    /\ traverse_body(FindBody(fn)) = <<>>
    /\ cfgOut.success = TRUE /\ cfgOut.node_count = 2

\* C9 (as claimed): every successfully built function CFG reports
\* complexity = max(1, edge_count - node_count + 2), hence complexity >= 1.
C9_Original ==
    (fpc = "built" /\ cfgOut.success = TRUE)
        => /\ cfgOut.complexity = Max(1, cfgOut.edge_count - cfgOut.node_count + 2)
           /\ cfgOut.complexity >= 1

\* a function with at least one basic block was built by the archive builder
CfgBuilt == fpc = "built" /\ version = "archive" /\ fault = NoExc /\ ~NoBasicBlock(fn)

\* the kinds of the statements written directly in a body
TopLevelKinds(body) ==
    LET stmts == SelectSeq(body.children, LAMBDA c : c.type \notin {"{", "}"})
    IN  [i \in 1..Len(stmts) |-> stmts[i].type]

HasKind(block, kinds) == \E s \in 1..Len(block) : block[s] \in kinds

BranchKinds == {"if_statement", "while_statement", "for_statement"}
LoopKinds == {"while_statement", "for_statement"}

RECURSIVE DocumentOrder(_)
\* the kinds of a body's statements in document order: a simple statement or a
\* control-transfer statement is one statement, anything else is looked into
DocumentOrder(node) ==
    IF node.type \in ControlTypes \cup {"expression_statement", "declaration"}
    THEN <<node.type>>
    ELSE Flatten([i \in 1..Len(node.children) |-> DocumentOrder(node.children[i])])

RECURSIVE Segment(_, _)
\* the segmentation rule applied to a sequence of statement kinds, cur being
\* the accumulating block
Segment(kinds, cur) ==
    IF kinds = <<>> THEN (IF cur # <<>> THEN <<cur>> ELSE <<>>)
    ELSE IF Head(kinds) \in ControlTypes
    THEN (IF cur # <<>> THEN <<cur>> ELSE <<>>) \o << <<Head(kinds)>> >>
             \o Segment(Tail(kinds), <<>>)
    ELSE Segment(Tail(kinds), Append(cur, Head(kinds)))

\* C16 (as claimed): the basic blocks are the segmentation of the body's
\* statements in document order in which every if, while, for, switch, break,
\* continue, return or goto closes the accumulating block and forms a block of
\* its own, every other statement joins the accumulator, and a non-empty
\* accumulator ends as the final block; no block is empty and none holds a
\* control-transfer statement together with another statement.
C16_Original ==
    (fpc = "built" /\ version = "archive" /\ fault = NoExc /\ FindBody(fn) # None)
        => LET blocks == BlocksOf(fn)
           IN  /\ blocks = Segment(DocumentOrder(FindBody(fn)), <<>>)
               /\ \A b \in 1..Len(blocks) :
                      /\ blocks[b] # <<>>
                      /\ HasKind(blocks[b], ControlTypes) => Len(blocks[b]) = 1

\* C17: with n >= 1 basic blocks the CFG has exactly the n + 2 nodes entry,
\* block_1..block_n, exit, and holds entry -> block_1, block_i -> block_{i+1}
\* for 1 <= i < n, and block_n -> exit.
C17_LinearSkeleton ==
    CfgBuilt
        => LET n == Len(BlocksOf(fn))
               g == GraphOf(fn)
           IN  /\ n >= 1
               /\ cfgOut.basic_blocks = n
               /\ cfgOut.node_count = n + 2
               /\ Len(g.nodes) = n + 2
               /\ Range(g.nodes) = {Entry, Exit} \cup {BlockId(i) : i \in 1..n}
               /\ <<Entry, BlockId(1)>> \in g.edges
               /\ \A i \in 1..(n - 1) : <<BlockId(i), BlockId(i + 1)>> \in g.edges
               /\ <<BlockId(n), Exit>> \in g.edges
               /\ cfgOut.edge_count >= n + 1
               /\ Exit \in Range(cfgOut.exit_nodes)

\* a function with three blocks was built
C17_Witness ==
    /\ CfgBuilt
    /\ Len(BlocksOf(fn)) = 3
    /\ cfgOut.node_count = 5
    /\ {<<BlockId(1), BlockId(2)>>, <<BlockId(2), BlockId(3)>>} \subseteq GraphOf(fn).edges

C19_Original ==
    CfgBuilt
        => LET blocks == BlocksOf(fn)
           IN  \A k \in 1..Len(blocks) : HasKind(blocks[k], LoopKinds) =>
                   /\ <<BlockId(k), BlockId(k)>> \in GraphOf(fn).edges
                   /\ cfgOut.cycles # {}

\* blocks before the last one that get an edge besides their sequential one
ExtraSources(blocks) ==
    {k \in 1..(Len(blocks) - 1) :
        HasKind(blocks[k], BranchKinds \cup {"return_statement"})}

C27_OnlyExit ==
    (CfgBuilt /\ cfgOut.success = TRUE)
        => \A g \in {GraphOf(fn)} :
              /\ \A u \in Range(g.nodes) \ {Exit} : \E e \in g.edges : e[1] = u
              /\ ~ \E e \in g.edges : e[1] = Exit
              /\ cfgOut.exit_nodes = <<Exit>>

\* a function whose last block is a branch and one whose last block is a
\* return were built: the last block still leaves to exit only
C27_Witness ==
    /\ CfgBuilt /\ cfgOut.success = TRUE
    /\ \A blocks \in {BlocksOf(fn)} :
          /\ Len(blocks) = 2
          /\ HasKind(blocks[2], BranchKinds)
          /\ cfgOut.exit_nodes = <<Exit>>

-----------------------------------------------------------------------------
(* Claims about the per-function PDG builder (SpecPdg) *)

\* positions of the dependencies that target statement id on variable v
EdgesInto(deps, id, v) ==
    {k \in 1..Len(deps) : deps[k].target = StmtRef(version, id) /\ deps[k].variable = v}

\* C10 (as claimed): for every statement s and every variable v used by s, if a
\* statement with a smaller id defines v then exactly one dependency targets s
\* on v and its source is the definer with the greatest id below s.id;
\* otherwise no dependency targets s on v.
C10_Original ==
    (fpc = "built" /\ fault = NoExc)
        => LET stmts == pdgOut.statements
               deps == pdgOut.dependencies
           IN  \A i \in 1..Len(stmts) : \A v \in Range(stmts[i].variables_used) :
                   LET definers == {j \in 1..(i - 1) : v \in Range(stmts[j].variables_defined)}
                       into == EdgesInto(deps, stmts[i].id, v)
                   IN  IF definers = {} THEN into = {}
                       ELSE /\ Cardinality(into) = 1
                            /\ \A k \in into :
                                 deps[k].source =
                                   StmtRef(version,
                                     stmts[CHOOSE j \in definers : \A m \in definers : m <= j].id)

\* a second run on fn has returned
Rerun == fpc = "rebuilt" /\ fault = NoExc

StatementIds(out) == [i \in 1..Len(out.statements) |-> out.statements[i].id]

VariableSets(out) ==
    [i \in 1..Len(out.statements) |->
        [used |-> Range(out.statements[i].variables_used),
         defined |-> Range(out.statements[i].variables_defined)]]

ThenAssign == <<"r", "=", "x", "*", "2">>
ElseAssign == <<"r", "=", "x", "*", "-", "1">>

\* ids of the statements whose text is an assignment, with or without its ';'
StatementsReading(out, tokens) ==
    {out.statements[k].id : k \in {m \in 1..Len(out.statements) :
                                      out.statements[m].text \in {tokens, Append(tokens, ";")}}}

ReturnStatements(out) ==
    {out.statements[k].id : k \in {m \in 1..Len(out.statements) :
                                      out.statements[m].type = "return_statement"}}

\* C12 (as claimed): for the body 'int r=0; if (x>0) { r=x*2; } else { r=x*-1; }
\* for(int i=0;i<x;i++){ r+=i; } return r;' the PDG reports, on variable r, a
\* dependency edge to 'return r;' from the assignment in the then-branch and
\* one from the assignment in the else-branch.
C12_Original ==
    (fpc = "built" /\ version = "archive" /\ fault = NoExc /\ fn = TestFunction)
        => \A branch \in {ThenAssign, ElseAssign} :
               \E k \in 1..Len(pdgOut.dependencies) :
                   LET dep == pdgOut.dependencies[k]
                   IN  /\ dep.variable = "r"
                       /\ dep.target \in {StmtRef(version, id) : id \in ReturnStatements(pdgOut)}
                       /\ dep.source \in {StmtRef(version, id) :
                                             id \in StatementsReading(pdgOut, branch)}

-----------------------------------------------------------------------------
(* Claims about the internal builders on one unit (SpecUnit) *)

RECURSIVE Depths(_, _)
\* the depth of every node of a subtree, in pre-order, its root at depth d
Depths(node, d) ==
    <<d>> \o Flatten([i \in 1..Len(node.children) |-> Depths(node.children[i], d + 1)])

\* the depth ceiling each generation counts nodes with
Ceiling(v) == IF v = "archive" THEN AST_MAX_DEPTH ELSE SafeMaxDepth

\* the pattern extractor ran on the unit and succeeded
AstBuilt == upc = "built" /\ unitLayer = "ast" /\ unitOut.val.success

\* C21: node_count counts, once each, the nodes at depth <= ceiling + 1 (root
\* at depth 0) and none of the descendants of a node at depth ceiling + 1; so
\* node_count <= the true node count, with equality exactly when no node is
\* deeper than ceiling + 1.
C21_DepthCeiling ==
    AstBuilt =>
        LET depths == Depths(unitIn.root, 0)
            counted == {i \in 1..Len(depths) : depths[i] <= Ceiling(version) + 1}
        IN  /\ unitOut.val.node_count = Cardinality(counted)
            /\ unitOut.val.node_count <= Len(depths)
            /\ (unitOut.val.node_count = Len(depths))
                   <=> (\A i \in 1..Len(depths) : depths[i] <= Ceiling(version) + 1)

\* a unit with nodes below the ceiling was counted short
C21_Witness ==
    /\ AstBuilt
    /\ LET depths == Depths(unitIn.root, 0)
       IN  /\ \E i \in 1..Len(depths) : depths[i] > Ceiling(version) + 1
           /\ unitOut.val.node_count < Len(depths)
           /\ unitOut.val.node_count > Ceiling(version) + 1

\* the declarations of a unit, in traversal order
DeclarationsOf(root_node) ==
    SelectSeq(PreOrder(root_node), LAMBDA m : m.type = "declaration")

WrapperTypes == {"pointer_declarator", "array_declarator", "init_declarator"}

\* the kinds of the wrappers of a declarator, from the outermost inward (each
\* wrapper holds the next, so this is their pre-order), and the name of the
\* identifier they wrap (the first identifier of the declarator)
WalkInward(nodes) ==
    LET wrappers == SelectSeq(nodes, LAMBDA m : m.type \in WrapperTypes)
        ids == SelectSeq(nodes, LAMBDA m : m.type = "identifier")
    IN  [kinds |-> [i \in 1..Len(wrappers) |-> wrappers[i].type], name |-> TextOf(ids[1])]

\* the walks of the declarators of the unit's declarations that start with a wrapper
WrappedWalks ==
    {WalkInward(PreOrder(d.children[2])) :
        d \in {m \in Range(DeclarationsOf(unitIn.root)) : m.children[2].type \in WrapperTypes}}

\* the records the archive pattern extractor and the archive PDG builder hold
\* for the declared variables
ResolvedRecords ==
    IF unitLayer = "ast" THEN Range(unitOut.val.patterns.variables)
    ELSE {unitOut.val.functions["f"].variables[name] :
             name \in DOMAIN unitOut.val.functions["f"].variables}

\* the archive pattern extractor or PDG builder ran on a unit that is one
\* function declaring one variable through at least one wrapper
DeclaratorResolved ==
    /\ upc = "built" /\ version = "archive" /\ unitLayer \in {"ast", "pdg"}
    /\ unitIn.fault = NoFault
    /\ Len(DeclarationsOf(unitIn.root)) = 1
    /\ WrappedWalks # {}

\* the pointer / array wrappers among a walk's kinds
FlagKinds(kinds) ==
    SelectSeq(kinds, LAMBDA k : k \in {"pointer_declarator", "array_declarator"})

FunctionDefinitions(root_node) ==
    SelectSeq(PreOrder(root_node), LAMBDA m : m.type = "function_definition")

\* the function definitions with a body whose name cannot be resolved
UnnamedWithBody(root_node) ==
    SelectSeq(FunctionDefinitions(root_node),
              LAMBDA m : ~IsNamedFunction(m) /\ FindBody(m) # None)

\* C23 (as claimed): a function definition whose name cannot be resolved is
\* left out of the pattern extractor's functions list but, having a body,
\* is a function unit of the CFG and PDG layers: each gives it an entry and
\* counts it in its totals.
C23_Original ==
    (upc = "built" /\ unitIn.fault = NoFault /\ UnnamedWithBody(unitIn.root) # <<>>)
        => \A defs \in {FunctionDefinitions(unitIn.root)} :
           \A named \in {SelectSeq(defs, IsNamedFunction)} :
              IF unitLayer = "ast"
              THEN IF version = "archive"
                   THEN Len(unitOut.val.patterns.functions) = Len(named)
                   ELSE Len(unitOut.val.functions) = Len(named)
              ELSE /\ Cardinality(DOMAIN unitOut.val.functions) = Len(defs)
                   /\ unitOut.val.global_stats.total_functions = Len(defs)

\* the lists of a pattern record, under the names of PatternLists
ListsOf(v, record) ==
    IF v = "archive" THEN record.patterns
    ELSE [functions |-> record.functions, calls |-> record.function_calls,
          variables |-> record.variables, conditions |-> record.conditions,
          loops |-> record.loops]

\* the node kinds whose visit appends to a list
ListKinds(list) ==
    CASE list = "functions" -> {"function_definition"}
      [] list = "calls" -> {"call_expression"}
      [] list = "variables" -> {"declaration"}
      [] list = "pointers" -> {"pointer_expression", "field_expression"}
      [] list = "arrays" -> {"subscript_expression"}
      [] list = "conditions" -> {"if_statement", "conditional_expression", "switch_statement"}
      [] list = "loops" -> {"for_statement", "while_statement", "do_statement"}

\* s starts with p
IsPrefix(p, s) == Len(p) <= Len(s) /\ SubSeq(s, 1, Len(p)) = p

\* the pattern extractor ran on a unit one of whose node visits raises
VisitRaised == upc = "built" /\ unitLayer = "ast" /\ unitIn.fault.at = "visit"

\* what the extractor returns for the same unit when nothing raises
Unfaulted ==
    {Builder(version, "ast", clean, hashSeed).val :
        clean \in {[root |-> unitIn.root, fault |-> NoFault]}}

\* C26 (as claimed): when the visit of one node raises during a list
\* extraction, the exception is swallowed there: the extraction as a whole
\* returns success = true, the list keeps the items collected before that
\* visit, and the other lists are complete.
C26_Original ==
    VisitRaised =>
        /\ unitOut.val.success
        /\ \A full \in Unfaulted :
           \A nodes \in {PreOrder(unitIn.root)} :
           \A got \in {ListsOf(version, unitOut.val)} :
           \A list \in DOMAIN got :
              IF list = unitIn.fault.list
              THEN IsPrefix(
                      Take(ListsOf(version, full)[list],
                           Cardinality({i \in 1..(unitIn.fault.node - 1) :
                                           nodes[i].type \in ListKinds(list)})),
                      got[list])
              ELSE got[list] = ListsOf(version, full)[list]


-----------------------------------------------------------------------------
(* Claims about the variables, statements and dependencies of one PDG (SpecPdg) *)

\* the per-function PDG builder returned a PDG
PdgBuilt == fpc \in {"built", "rebuilt"} /\ fault = NoExc /\ "variables" \in DOMAIN pdgOut

\* what one declaration node declares, in order: name, line and flags
DeclaredBy(v, node) ==
    IF v = "archive"
    THEN LET infos == _parse_variable_declaration_ast(node)
         IN  [i \in 1..Len(infos) |->
                 [name |-> infos[i].name,
                  rec |-> [type |-> infos[i].type, declaration_line |-> infos[i].line,
                           is_parameter |-> node.type = "parameter_declaration",
                           is_pointer |-> infos[i].is_pointer,
                           is_array |-> infos[i].is_array, scope |-> "function"]]]
    ELSE LET info == _parse_variable_declaration(node)
         IN  IF info = None THEN <<>>
             ELSE << [name |-> info.name,
                      rec |-> [type |-> info.type, declaration_line |-> node.line,
                               is_parameter |-> node.type = "parameter_declaration",
                               is_pointer |-> info.is_pointer,
                               is_array |-> info.is_array, scope |-> "function"]] >>

\* every declaration of a function, in traversal order
DeclaredIn(v, func_node) ==
    LET nodes == SelectSeq(PreOrder(func_node),
                           LAMBDA m : m.type \in {"declaration", "parameter_declaration"})
    IN  Flatten([i \in 1..Len(nodes) |-> DeclaredBy(v, nodes[i])])

\* C24: the variables of a function's PDG are keyed by name, last write wins:
\* the record stored for a name is that of the last declaration of the name in
\* traversal order, and variable_count is the number of distinct declared names.
C24_LastWriteWins ==
    PdgBuilt =>
        \A declared \in {DeclaredIn(version, fn)} :
            /\ DOMAIN pdgOut.variables = {declared[i].name : i \in 1..Len(declared)}
            /\ pdgOut.variable_count
                   = Cardinality({declared[i].name : i \in 1..Len(declared)})
            /\ \A i \in 1..Len(declared) :
                   (\A j \in (i + 1)..Len(declared) : declared[j].name # declared[i].name)
                       => pdgOut.variables[declared[i].name] = declared[i].rec

\* x was declared twice, `int x = y;` then `int *x = y;`: one variable, with
\* the record of the second declaration
C24_Witness ==
    /\ PdgBuilt
    /\ \A declared \in {DeclaredIn(version, fn)} :
           /\ Len(declared) = 2
           /\ declared[1].name = declared[2].name
           /\ declared[1].rec # declared[2].rec
           /\ ~declared[1].rec.is_pointer
    /\ pdgOut.variable_count = 1
    /\ pdgOut.variables["x"].is_pointer
    /\ pdgOut.variables["x"].declaration_line = 3

\* the statement id a dependency end names
IdOf(v, ref) == IF v = "archive" THEN ref[2] ELSE ref

\* C25: within one function the statement ids are 0, 1, ..., n-1 in traversal
\* order, without gap or repeat (the statement at list position k has id k,
\* statement_count = n, and the statements follow the source from top to
\* bottom), and the dependency list keeps that order: its edges come in
\* non-decreasing order of target statement id.
C25_TraversalOrder ==
    PdgBuilt =>
        /\ \A k \in 1..Len(pdgOut.statements) : pdgOut.statements[k].id = k - 1
        /\ pdgOut.statement_count = Len(pdgOut.statements)
        /\ \A k \in 1..(Len(pdgOut.statements) - 1) :
               pdgOut.statements[k].line <= pdgOut.statements[k + 1].line
        /\ \A a, b \in 1..Len(pdgOut.dependencies) :
               a < b => IdOf(version, pdgOut.dependencies[a].target)
                            <= IdOf(version, pdgOut.dependencies[b].target)

\* a PDG with edges into two different statements, listed in id order
C25_Witness ==
    /\ PdgBuilt
    /\ Len(pdgOut.statements) >= 3
    /\ \E a, b \in 1..Len(pdgOut.dependencies) :
           /\ a < b
           /\ IdOf(version, pdgOut.dependencies[a].target)
                  < IdOf(version, pdgOut.dependencies[b].target)

\* C28: every dependency edge goes from a statement to a statement with a
\* strictly larger id: no statement depends on itself, even when it uses and
\* defines the same variable, and the dependency relation has no cycle.
C28_SourceBeforeTarget ==
    PdgBuilt =>
        \A k \in 1..Len(pdgOut.dependencies) :
            /\ IdOf(version, pdgOut.dependencies[k].source)
                   < IdOf(version, pdgOut.dependencies[k].target)
            /\ IdOf(version, pdgOut.dependencies[k].source) >= 0
            /\ IdOf(version, pdgOut.dependencies[k].target) < Len(pdgOut.statements)

\* a statement that uses and defines y has an edge on y from an earlier
\* statement and none from itself
C28_Witness ==
    /\ PdgBuilt
    /\ \E k \in 1..Len(pdgOut.statements) :
           /\ "y" \in Range(pdgOut.statements[k].variables_used)
           /\ "y" \in Range(pdgOut.statements[k].variables_defined)
           /\ \E d \in 1..Len(pdgOut.dependencies) :
                  /\ pdgOut.dependencies[d].variable = "y"
                  /\ IdOf(version, pdgOut.dependencies[d].target) = pdgOut.statements[k].id
                  /\ IdOf(version, pdgOut.dependencies[d].source) < pdgOut.statements[k].id

-----------------------------------------------------------------------------
(* Claims about the migration (SpecMigrate) *)

\* C30 (as claimed): after migrate_data returns, for any mix of items that
\* fail to transform and batches whose insertion fails, the sum of the
\* cwe_distribution counts and the sum of the fix_patterns counts both equal
\* successful_migrations.
C30_Original ==
    mpc = "done"
        => /\ CounterSum(migration_stats.cwe_distribution)
                 = migration_stats.successful_migrations
           /\ CounterSum(migration_stats.fix_patterns)
                 = migration_stats.successful_migrations

====
